---- MODULE Spec2Model ----
(***************************************************************************)
(* Ethscription indexer: the per-transaction pipeline of                   *)
(* EthscriptionsService.processEthscriptionsEvents (calldata creation,     *)
(* direct and batch transfers, ESIP-1 / ESIP-2 log transfers, marketplace, *)
(* bridge and points logs) acting on the derived datastore.                *)
(*                                                                         *)
(* Hashes are abstract lowercase identifiers (the chain client and the log *)
(* decoder both hand out lowercase hex for 32-byte values).  Addresses     *)
(* keep their case: the chain client returns tx.from, tx.to and            *)
(* log.address in lowercase, the log decoder returns checksummed (mixed    *)
(* case) addresses, and toLowerCase maps the second onto the first.        *)
(***************************************************************************)
EXTENDS Integers, Sequences, FiniteSets, TLC

VARIABLES
    ethscriptions,  \* table ethscriptions: hashId -> row, or Nothing when absent
    listings,       \* table listings: hashId -> row, or Nothing when absent
    bids,           \* table bids: hashId -> row, or Nothing when absent
    userPoints,     \* table users: address -> points
    bridgeQueue,    \* items handed to BridgeProcessingQueue.addHashLockedToQueue
    eventsTable,    \* table events: the events handed to addEvents
    lastBlock,      \* table blocks: the checkpoint written by updateLastBlock
    processedBlocks,\* ProcessingService.processedBlocks
    block,          \* the block processBlock is working on, or Nothing
    frames,         \* the processTransactions calls in progress, innermost last
    lastRun,        \* history: the last finished processTransactions call of a block
    indexer,        \* AppService: the chain head, the block queue, the startup
    replay,         \* history: the blocks processed so far and their reprocessing
    pc,             \* the worker: "idle", or "returned" from processTransaction
    lastTx,         \* history: the transaction of the last processTransaction call
    lastEnv,        \* history: what the collaborators answered during that call
    pre,            \* history: the datastore before that call
    lastResult      \* history: what that call returned (events) or that it threw

blockVars == <<eventsTable, lastBlock, processedBlocks, block, frames, lastRun, replay,
               indexer>>

vars == <<ethscriptions, listings, bids, userPoints, bridgeQueue, blockVars,
          pc, lastTx, lastEnv, pre, lastResult>>

-----------------------------------------------------------------------------
(* Bounds of the model *)

\* Largest transactionIndex and logIndex of an enumerated transaction / log.
MaxIndex == 1

\* Longest batch (number of 32-byte words) of an enumerated batch transfer.
MaxBatch == 3

\* Number of blocks the chain presents before blocks are processed again.
MaxBlocks == 1

\* Largest number of transactions of an enumerated block.
MaxBlockSize == 2

\* Highest block with transactions of a long chain.
MaxTxBlocks == 3

\* Number of blocks a long chain is followed for.
MaxChainLength == 31

\* Highest chain head.
MaxHead == 5

\* Deepest nesting of processTransactions calls (a retryBlock inside a catch).
MaxRetryDepth == 3

\* The applications of one transaction within a processBlock call are counted
\* up to this number.
MaxApplied == 2

-----------------------------------------------------------------------------
(* Values *)

NULL == "null"                    \* a missing string value (address, hashId)
Nothing == [ nothing |-> TRUE ]   \* a missing row, event or record

zeroAddress == "0x0"
marketAddressL1 == "0xm"
bridgeAddressL1 == "0xbr"
pointsAddressL1 == "0xpt"
auctionAddress == "0xau"

\* Externally owned accounts, as the chain client spells them (lowercase).
Users == {"0xa", "0xb"}

\* viem's checksumAddress, applied by decodeEventLog to every address argument.
checksumAddress(a) ==
    CASE a = "0xa" -> "0xA"
      [] a = "0xb" -> "0xB"
      [] a = "0xm" -> "0xM"
      [] OTHER -> a

\* String.prototype.toLowerCase on an address.
toLowerCase(a) ==
    CASE a = "0xA" -> "0xa"
      [] a = "0xB" -> "0xb"
      [] a = "0xM" -> "0xm"
      [] OTHER -> a

\* The ethscriptions the dictionary knows and that were inscribed before the
\* indexer came up, a word that is no ethscription of the collection, and the
\* hash of the enumerated transactions.
HashIds == {"h1", "h2"}
OtherWord == "h3"
Words == HashIds \cup {OtherWord}
TxHash == "t1"
AllHashIds == Words \cup {TxHash}

\* Date.now(): two readings of the clock, both larger than any index.
Clock == {1000, 1001}

SEGMENT_SIZE == 64

-----------------------------------------------------------------------------
(* Calldata.  A calldata value is its hex length (without "0x"), its utf-8     *)
(* decoding as a sequence of tokens, and its split into 32-byte words.        *)

NUL == "\\x00"
DataPrefix == <<"data:">>
SvgPrefix == <<"data:", "image/svg+xml,">>
PngPrefix == <<"data:", "image/png;base64,">>

\* String.prototype.startsWith on token sequences.
startsWith(s, prefix) ==
    /\ Len(s) >= Len(prefix)
    /\ SubSeq(s, 1, Len(prefix)) = prefix

\* stringData.replace(/\x00/g, '')
stripNulls(s) == SelectSeq(s, LAMBDA c : c # NUL)

\* createHash('sha256').update(cleanedString).digest('hex'): injective on the
\* strings of the model.
sha256(s) == <<"sha256", s>>

\* The pre-seeded SHA -> tokenId dictionary (table phunk shas).
PhunkShas ==
    (sha256(SvgPrefix \o <<"p1">>) :> 1) @@
    (sha256(SvgPrefix \o <<"p2">>) :> 2) @@
    (sha256(PngPrefix \o <<"p3">>) :> 3)

\* The sha of the ethscriptions inscribed before the indexer came up.
ShaOfHashId(h) ==
    IF h = "h1" THEN sha256(SvgPrefix \o <<"p1">>) ELSE sha256(SvgPrefix \o <<"p2">>)

DataInput(nuls, mime, payload) ==
    [ hexLen |-> 70,
      text   |-> (IF nuls THEN <<NUL>> ELSE <<>>) \o <<"data:", mime, payload>>,
      words  |-> <<>> ]

WordsInput(ws) ==
    [ hexLen |-> SEGMENT_SIZE * Len(ws), text |-> <<"bin">>, words |-> ws ]

CallInput == [ hexLen |-> 8, text |-> <<"bin">>, words |-> <<>> ]

-----------------------------------------------------------------------------
(* The datastore (SupabaseService).  Its implementation is not part of the   *)
(* sources; the operations follow the datastore interface of the design:     *)
(* rows keyed by lowercase hashId, addresses kept in lowercase.              *)

Db == [ ethscriptions |-> ethscriptions, listings |-> listings, bids |-> bids,
        userPoints |-> userPoints, bridgeQueue |-> bridgeQueue ]

\* How the datastore writes an address column (a missing value stays missing).
StoreAddress(a) == IF a = NULL THEN NULL ELSE toLowerCase(a)

checkEthscriptionExistsByHashId(db, hashId) ==
    IF hashId \in DOMAIN db.ethscriptions THEN db.ethscriptions[hashId] ELSE Nothing

checkIsEthPhunk(sha) ==
    IF sha \in DOMAIN PhunkShas THEN [sha |-> sha, tokenId |-> PhunkShas[sha]] ELSE Nothing

checkEthscriptionExistsBySha(db, sha) ==
    \E h \in DOMAIN db.ethscriptions :
        db.ethscriptions[h] # Nothing /\ db.ethscriptions[h].sha = sha

\* updateOwner(hashId, expectedOwner, newOwner): compare-and-set.
updateEthscriptionOwner(db, hashId, prevOwner, newOwner) ==
    LET row == db.ethscriptions[hashId] IN
    IF row # Nothing /\ row.owner = prevOwner
    THEN [db EXCEPT !.ethscriptions[hashId] =
              [row EXCEPT !.owner = StoreAddress(newOwner),
                          !.prevOwner = StoreAddress(prevOwner)]]
    ELSE db

\* addEthscription: hashId = tx.hash.lower(), owner = tx.to or zeroAddress,
\* creator = tx.from, prevOwner = null, tokenId = dictionary[sha].
addEthPhunk(db, txn, phunkSha) ==
    [db EXCEPT !.ethscriptions[txn.hash] =
        [ hashId    |-> txn.hash,
          sha       |-> phunkSha.sha,
          tokenId   |-> phunkSha.tokenId,
          owner     |-> StoreAddress(IF txn.to = NULL THEN zeroAddress ELSE txn.to),
          prevOwner |-> NULL,
          creator   |-> StoreAddress(txn.from),
          locked    |-> FALSE ]]

\* removeListing(hashId) -> bool: whether a row was removed.
removeListing(db, hashId) ==
    [ db      |-> [db EXCEPT !.listings[hashId] = Nothing],
      removed |-> db.listings[hashId] # Nothing ]

\* upsertListing: at most one row per hashId.
createListing(db, txn, hashId, toAddress) ==
    [db EXCEPT !.listings[hashId] =
        [ hashId    |-> hashId,
          seller    |-> StoreAddress(txn.from),
          toAddress |-> StoreAddress(toAddress) ]]

\* lockEthscription(hashId) -> bool: whether a row was found and locked.
lockEthscription(db, hashId) ==
    LET row == checkEthscriptionExistsByHashId(db, hashId) IN
    IF row = Nothing
    THEN [ db |-> db, locked |-> FALSE ]
    ELSE [ db |-> [db EXCEPT !.ethscriptions[hashId].locked = TRUE], locked |-> TRUE ]

updateUserPoints(db, address, points) ==
    [db EXCEPT !.userPoints =
        (StoreAddress(address) :> points) @@ db.userPoints]

\* BridgeProcessingQueue.addHashLockedToQueue(hashId, prevOwner)
addHashLockedToQueue(db, hashId, prevOwner) ==
    [db EXCEPT !.bridgeQueue = @ \cup {<<hashId, prevOwner>>}]

-----------------------------------------------------------------------------
(* Ownership transfers *)

\* JavaScript's a || b on an optional index: undefined (<<>>) and 0 are falsy.
OrIndex(a, b) == IF a = <<>> \/ a[1] = 0 THEN b ELSE a

\* What a handler returns: the datastore it leaves, its event (or Nothing), and
\* whether it ended by throwing.
Handled(db, event) == [ db |-> db, event |-> event, threw |-> FALSE ]
Thrown(db) == [ db |-> db, event |-> Nothing, threw |-> TRUE ]

\* txId: txn.hash + (index || txn.transactionIndex)
TransferTxId(txn, index) ==
    <<txn.hash, OrIndex(index, <<txn.transactionIndex>>)[1]>>

\* A transfer that hands the record back to the sender.
TransferNewOwnerSameAsSender(txn) == txn.from

\* The owner handed to the datastore by processTransferEvent: txn.to as it is.
TransferNewOwner(txn) == txn.to

processTransferEvent(db, hashId, txn, index) ==
    LET ethscript == checkEthscriptionExistsByHashId(db, hashId) IN
    IF ethscript = Nothing THEN Handled(db, Nothing)
    ELSE IF ethscript.owner = NULL THEN Thrown(db)   \* null.toLowerCase()
    ELSE
      LET isMatchedHashId == ethscript.hashId = hashId
          transferrerIsOwner == toLowerCase(ethscript.owner) = toLowerCase(txn.from)
      IN
      IF ~isMatchedHashId \/ ~transferrerIsOwner THEN Handled(db, Nothing)
      ELSE Handled(
             updateEthscriptionOwner(db, hashId, ethscript.owner, TransferNewOwner(txn)),
             [ txId    |-> TransferTxId(txn, index),
               type    |-> "transfer",
               hashId  |-> ethscript.hashId,
               from    |-> toLowerCase(txn.from),
               to      |-> toLowerCase(IF txn.to = NULL THEN zeroAddress ELSE txn.to),
               txIndex |-> txn.transactionIndex,
               txHash  |-> txn.hash,
               blockNumber |-> txn.blockNumber,
               blockHash |-> txn.blockHash ])

\* A check that accepts whatever previous owner the log names.
samePrevOwnerIgnoringHint(ethscript, prevOwner) == TRUE

\* ethscript.prevOwner && prevOwner ? equal ignoring case : true
samePrevOwner(ethscript, prevOwner) ==
    IF ethscript.prevOwner # NULL /\ prevOwner # NULL
    THEN toLowerCase(ethscript.prevOwner) = toLowerCase(prevOwner)
    ELSE TRUE

\* txId: txn.hash + (log?.logIndex || txn.transactionIndex || new Date().getTime())
ContractTransferTxId(txn, log, now) ==
    <<txn.hash,
      IF log.logIndex # 0 THEN log.logIndex
      ELSE IF txn.transactionIndex # 0 THEN txn.transactionIndex
      ELSE now>>

processContractTransferEvent(db, txn, from, to, hashId, log, prevOwner, now) ==
    LET ethscript == checkEthscriptionExistsByHashId(db, hashId) IN
    IF ethscript = Nothing THEN Handled(db, Nothing)
    ELSE IF ethscript.owner = NULL THEN Thrown(db)   \* null.toLowerCase()
    ELSE
      LET isMatchedHashId == ethscript.hashId = hashId
          transferrerIsOwner == toLowerCase(ethscript.owner) = toLowerCase(from)
      IN
      IF ~isMatchedHashId \/ ~transferrerIsOwner \/ ~samePrevOwner(ethscript, prevOwner)
      THEN Handled(db, Nothing)
      ELSE Handled(
             updateEthscriptionOwner(db, ethscript.hashId, ethscript.owner, to),
             [ txId    |-> ContractTransferTxId(txn, log, now),
               type    |-> "transfer",
               hashId  |-> ethscript.hashId,
               from    |-> toLowerCase(from),
               to      |-> toLowerCase(IF to = NULL THEN zeroAddress ELSE to),
               txIndex |-> txn.transactionIndex,
               txHash  |-> txn.hash,
               blockNumber |-> txn.blockNumber,
               blockHash |-> txn.blockHash ])

-----------------------------------------------------------------------------
(* Loops over logs and batch words.  A loop result is the datastore it       *)
(* leaves, the events it collected, and whether it ended by throwing.        *)

Collected(db, events) == [ db |-> db, events |-> events, threw |-> FALSE ]
Aborted(db) == [ db |-> db, events |-> <<>>, threw |-> TRUE ]

Push(events, event) == IF event = Nothing THEN events ELSE Append(events, event)

RECURSIVE Esip1Loop(_, _, _, _, _, _)
Esip1Loop(db, events, logs, i, transaction, now) ==
    IF i > Len(logs) THEN Collected(db, events)
    ELSE IF ~logs[i].decodes THEN Aborted(db)          \* decodeEventLog throws
    ELSE
      LET log == logs[i]
          r == processContractTransferEvent(db, transaction, log.address,
                   log.args.address, log.args.hashId, log, NULL, now)
      IN IF r.threw THEN Aborted(r.db)
         ELSE Esip1Loop(r.db, Push(events, r.event), logs, i + 1, transaction, now)

processEsip1(db, ethscriptionTransfers, transaction, now) ==
    Esip1Loop(db, <<>>, ethscriptionTransfers, 1, transaction, now)

RECURSIVE Esip2Loop(_, _, _, _, _, _)
Esip2Loop(db, events, logs, i, transaction, now) ==
    IF i > Len(logs) THEN Collected(db, events)
    ELSE IF ~logs[i].decodes THEN Aborted(db)          \* decodeEventLog throws
    ELSE
      LET log == logs[i]
          r == processContractTransferEvent(db, transaction, log.address,
                   log.args.address, log.args.hashId, log, log.args.previous, now)
      IN IF r.threw THEN Aborted(r.db)
         ELSE Esip2Loop(r.db, Push(events, r.event), logs, i + 1, transaction, now)

processEsip2(db, previousOwnerTransfers, transaction, now) ==
    Esip2Loop(db, <<>>, previousOwnerTransfers, 1, transaction, now)

\* for (let i = 0; i < validHashes.length; i++) try { ... } catch { log }
RECURSIVE Esip5Loop(_, _, _, _, _)
Esip5Loop(db, events, validHashes, i, txn) ==
    IF i >= Len(validHashes) THEN Collected(db, events)
    ELSE
      LET r == processTransferEvent(db, validHashes[i + 1], txn, <<i>>)
      IN Esip5Loop(r.db, Push(events, r.event), validHashes, i + 1, txn)

\* A batch decoder that attempts every word of the calldata.
processEsip5EveryWord(db, txn, validHashes) ==
    IF txn.input.hexLen % SEGMENT_SIZE # 0 THEN Collected(db, <<>>)
    ELSE Esip5Loop(db, <<>>, txn.input.words, 0, txn)

\* validHashes is what Web3Service.getValidTransactions(allHashes) answered.
processEsip5(db, txn, validHashes) ==
    IF txn.input.hexLen % SEGMENT_SIZE # 0 THEN Collected(db, <<>>)
    ELSE IF txn.input.hexLen = 0 THEN Aborted(db)       \* ''.match(...) is null
    ELSE IF Len(validHashes) = 0 THEN Collected(db, <<>>)
    ELSE Esip5Loop(db, <<>>, validHashes, 0, txn)

-----------------------------------------------------------------------------
(* Marketplace, bridge and points logs *)

MarketEvent(txn, log, type, from, to) ==
    [ txId    |-> <<txn.hash, log.logIndex>>,
      type    |-> type,
      hashId  |-> log.args.hashId,
      from    |-> from,
      to      |-> to,
      txIndex |-> txn.transactionIndex,
      txHash  |-> txn.hash,
      blockNumber |-> txn.blockNumber,
      blockHash |-> txn.blockHash ]

\* A PhunkBought that is surfaced whether or not a listing was removed.
BoughtIsReportedAlways(removedListing) == TRUE

\* if (!removedListing) return;
BoughtIsReported(removedListing) == removedListing

\* A cancellation that is surfaced whenever a listing was removed.
NoLongerForSaleIsReportedForAnySender(removedListing, txn, phunk) == removedListing

\* if (!removedListing) return; if (txn.from === phunk.prevOwner) return {...}
NoLongerForSaleIsReported(removedListing, txn, phunk) ==
    removedListing /\ txn.from = phunk.prevOwner

\* An offer that is rejected whenever the sender is not the previous owner,
\* a missing previous owner included.
OfferedByStalePrevOwnerOrNone(phunk, txn) == phunk.prevOwner # txn.from

\* if (phunk.prevOwner && (phunk.prevOwner !== txn.from))
OfferedByStalePrevOwner(phunk, txn) ==
    phunk.prevOwner # NULL /\ phunk.prevOwner # txn.from

processEtherPhunkMarketplaceEvent(db, txn, log) ==
    LET eventName == log.topic
        hashId == log.args.hashId
        phunk == checkEthscriptionExistsByHashId(db, hashId)
    IN
    IF hashId = NULL THEN Handled(db, Nothing)
    ELSE IF phunk = Nothing THEN Handled(db, Nothing)
    ELSE IF eventName = "PhunkBought" THEN
      LET rm == removeListing(db, hashId) IN
      IF ~BoughtIsReported(rm.removed) THEN Handled(rm.db, Nothing)
      ELSE Handled(rm.db, MarketEvent(txn, log, eventName,
                       toLowerCase(log.args.previous), toLowerCase(log.args.address)))
    ELSE IF eventName = "PhunkNoLongerForSale" THEN
      LET rm == removeListing(db, hashId) IN
      IF NoLongerForSaleIsReported(rm.removed, txn, phunk)
      THEN Handled(rm.db, MarketEvent(txn, log, eventName,
                       toLowerCase(txn.from), zeroAddress))
      ELSE Handled(rm.db, Nothing)
    ELSE IF eventName = "PhunkOffered" THEN
      IF OfferedByStalePrevOwner(phunk, txn)
      THEN Handled(removeListing(db, hashId).db, Nothing)
      ELSE Handled(createListing(db, txn, hashId, log.args.address),
                   MarketEvent(txn, log, eventName,
                       toLowerCase(txn.from), toLowerCase(log.args.address)))
    ELSE Handled(db, Nothing)

RECURSIVE MarketLoop(_, _, _, _, _)
MarketLoop(db, events, logs, i, transaction) ==
    IF i > Len(logs) THEN Collected(db, events)
    ELSE IF toLowerCase(logs[i].address) # marketAddressL1
         THEN MarketLoop(db, events, logs, i + 1, transaction)
    ELSE IF ~logs[i].decodes                            \* caught: continue
         THEN MarketLoop(db, events, logs, i + 1, transaction)
    ELSE
      LET r == processEtherPhunkMarketplaceEvent(db, transaction, logs[i])
      IN MarketLoop(r.db, Push(events, r.event), logs, i + 1, transaction)

processEtherPhunkMarketplaceEvents(db, marketplaceLogs, transaction) ==
    MarketLoop(db, <<>>, marketplaceLogs, 1, transaction)

\* HashUnlocked has no effect: the unlock call is commented out.
RECURSIVE BridgeLoop(_, _, _)
BridgeLoop(db, logs, i) ==
    IF i > Len(logs) THEN Collected(db, <<>>)
    ELSE IF ~logs[i].decodes THEN Aborted(db)           \* decodeEventLog throws
    ELSE IF logs[i].topic = "HashLocked" THEN
      LET lk == lockEthscription(db, logs[i].args.hashId) IN
      IF ~lk.locked THEN Aborted(lk.db)                 \* Failed to lock ethscription
      ELSE BridgeLoop(addHashLockedToQueue(lk.db, logs[i].args.hashId,
                                           logs[i].args.previous), logs, i + 1)
    ELSE BridgeLoop(db, logs, i + 1)

processBridgeMainnetEvents(db, bridgeMainnetLogs) == BridgeLoop(db, bridgeMainnetLogs, 1)

\* try { points = getPoints(user); updateUserPoints(user, points) } catch { log }
distributePoints(db, fromAddress, chainPoints) ==
    IF ~chainPoints.ok THEN db
    ELSE updateUserPoints(db, fromAddress, chainPoints.points)

RECURSIVE DistributeAll(_, _, _)
DistributeAll(db, users, chainPoints) ==
    IF users = {} THEN db
    ELSE LET u == CHOOSE x \in users : TRUE
         IN DistributeAll(distributePoints(db, u, chainPoints), users \ {u}, chainPoints)

RECURSIVE PointsLoop(_, _, _, _, _)
PointsLoop(db, usersToUpdate, logs, i, chainPoints) ==
    IF i > Len(logs) THEN Collected(DistributeAll(db, usersToUpdate, chainPoints), <<>>)
    ELSE IF ~logs[i].decodes THEN Aborted(db)           \* decodeEventLog throws
    ELSE IF logs[i].topic = "PointsAdded"
         THEN PointsLoop(db, usersToUpdate \cup {logs[i].args.address}, logs, i + 1, chainPoints)
    ELSE PointsLoop(db, usersToUpdate, logs, i + 1, chainPoints)

processPointsEvent(db, pointsLogs, chainPoints) ==
    PointsLoop(db, {}, pointsLogs, 1, chainPoints)

-----------------------------------------------------------------------------
(* processEthscriptionsEvents.  A stage result adds "done": the function     *)
(* returned early and the later stages are skipped.                          *)

Continue(db, events) == [ db |-> db, events |-> events, threw |-> FALSE, done |-> FALSE ]
Return(db, events) == [ db |-> db, events |-> events, threw |-> FALSE, done |-> TRUE ]
Throw(db) == [ db |-> db, events |-> <<>>, threw |-> TRUE, done |-> TRUE ]

\* events.push(...eventArr) after a loop, or the loop's exception propagating.
Merge(r, loop) ==
    IF loop.threw THEN Throw(loop.db) ELSE Continue(loop.db, r.events \o loop.events)

WithTopic(logs, topic) == SelectSeq(logs, LAMBDA log : log.topic = topic)
FromAddress(logs, address) ==
    SelectSeq(logs, LAMBDA log : toLowerCase(log.address) = toLowerCase(address))

\* A pipeline without the early return on 'data:' calldata.
DataUriIsProcessed(cleanedString) == FALSE

\* if (cleanedString.startsWith('data:')) return [];
DataUriIsIgnored(cleanedString) == startsWith(cleanedString, DataPrefix)

possibleEthPhunk(cleanedString) ==
    \/ startsWith(cleanedString, SvgPrefix)
    \/ startsWith(cleanedString, PngPrefix)

CreatedEvent(txn) ==
    [ txId    |-> <<txn.hash, txn.transactionIndex>>,
      type    |-> "created",
      hashId  |-> txn.hash,
      from    |-> toLowerCase(txn.from),
      to      |-> toLowerCase(IF txn.to = NULL THEN zeroAddress ELSE txn.to),
      txIndex |-> txn.transactionIndex,
      txHash  |-> txn.hash,
      blockNumber |-> txn.blockNumber,
      blockHash |-> txn.blockHash ]

processEtherPhunkCreationEvent(db, txn, phunkShaData) ==
    Handled(addEthPhunk(db, txn, phunkShaData), CreatedEvent(txn))

\* A creation branch that inserts without the duplicate check.
CreationStageWithoutDuplicateCheck(db, transaction, cleanedString) ==
    LET sha == sha256(cleanedString)
        phunkSha == checkIsEthPhunk(sha)
    IN
    IF phunkSha = Nothing THEN Return(db, <<>>)
    ELSE LET r == processEtherPhunkCreationEvent(db, transaction, phunkSha)
         IN Return(r.db, <<r.event>>)

\* The creation branch: dictionary lookup, duplicate check, insert.
CreationStage(db, transaction, cleanedString) ==
    LET sha == sha256(cleanedString)
        phunkSha == checkIsEthPhunk(sha)
    IN
    IF phunkSha = Nothing THEN Return(db, <<>>)
    ELSE IF checkEthscriptionExistsBySha(db, sha) THEN Return(db, <<>>)
    ELSE LET r == processEtherPhunkCreationEvent(db, transaction, phunkSha)
         IN Return(r.db, <<r.event>>)

\* possibleTransfer / possibleBatchTransfer
CalldataStage(db, transaction, env) ==
    LET input == transaction.input
        possibleTransfer == input.hexLen = SEGMENT_SIZE
        possibleBatchTransfer == input.hexLen % SEGMENT_SIZE = 0
    IN
    IF possibleTransfer THEN
      LET r == processTransferEvent(db, input.words[1], transaction, <<>>)
      IN IF r.threw THEN Throw(r.db) ELSE Continue(r.db, Push(<<>>, r.event))
    ELSE IF possibleBatchTransfer THEN
      Merge(Continue(db, <<>>), processEsip5(db, transaction, env.validHashes))
    ELSE Continue(db, <<>>)

Esip1Stage(r, transaction, env) ==
    LET esip1Transfers == WithTopic(transaction.logs, "esip1") IN
    IF r.done \/ Len(esip1Transfers) = 0 THEN r
    ELSE Merge(r, processEsip1(r.db, esip1Transfers, transaction, env.now))

Esip2Stage(r, transaction, env) ==
    LET esip2Transfers == WithTopic(transaction.logs, "esip2") IN
    IF r.done \/ Len(esip2Transfers) = 0 THEN r
    ELSE Merge(r, processEsip2(r.db, esip2Transfers, transaction, env.now))

\* if (!eventArr?.length) return events;
MarketStage(r, transaction) ==
    LET marketplaceLogs == FromAddress(transaction.logs, marketAddressL1) IN
    IF r.done \/ Len(marketplaceLogs) = 0 THEN r
    ELSE LET loop == processEtherPhunkMarketplaceEvents(r.db, marketplaceLogs, transaction)
         IN IF Len(loop.events) = 0 THEN Return(loop.db, r.events)
            ELSE Merge(r, loop)

\* await this.processBridgeMainnetEvents(bridgeMainnetLogs); return events;
BridgeStage(r, transaction) ==
    LET bridgeMainnetLogs == FromAddress(transaction.logs, bridgeAddressL1) IN
    IF r.done \/ Len(bridgeMainnetLogs) = 0 THEN r
    ELSE LET loop == processBridgeMainnetEvents(r.db, bridgeMainnetLogs)
         IN IF loop.threw THEN Throw(loop.db) ELSE Return(loop.db, r.events)

PointsStage(r, transaction, env) ==
    LET pointsLogs == FromAddress(transaction.logs, pointsAddressL1) IN
    IF r.done \/ Len(pointsLogs) = 0 THEN r
    ELSE Merge(r, processPointsEvent(r.db, pointsLogs, env.chainPoints))

\* A pipeline that handles the marketplace logs before the transfers.
processEthscriptionsEventsMarketFirst(db, transaction, env) ==
    IF transaction.status # "success" THEN Return(db, <<>>)
    ELSE
      LET cleanedString == stripNulls(transaction.input.text) IN
      IF DataUriIsIgnored(cleanedString) THEN Return(db, <<>>)
      ELSE IF possibleEthPhunk(cleanedString)
           THEN CreationStage(db, transaction, cleanedString)
      ELSE
        LET m == MarketStage(Continue(db, <<>>), transaction)
            t == Esip2Stage(
                   Esip1Stage(CalldataStage(m.db, transaction, env), transaction, env),
                   transaction, env)
        IN IF t.threw THEN t
           ELSE PointsStage(
                  BridgeStage([t EXCEPT !.events = m.events \o t.events], transaction),
                  transaction, env)

processEthscriptionsEvents(db, transaction, env) ==
    IF transaction.status # "success" THEN Return(db, <<>>)
    ELSE
      LET cleanedString == stripNulls(transaction.input.text) IN
      IF DataUriIsIgnored(cleanedString) THEN Return(db, <<>>)
      ELSE IF possibleEthPhunk(cleanedString)
           THEN CreationStage(db, transaction, cleanedString)
      ELSE PointsStage(
             BridgeStage(
               MarketStage(
                 Esip2Stage(
                   Esip1Stage(CalldataStage(db, transaction, env), transaction, env),
                   transaction, env),
                 transaction),
               transaction),
             transaction, env)

-----------------------------------------------------------------------------
(* The transactions and collaborator answers the model enumerates.  A        *)
(* transaction carries its receipt: status and logs.                         *)

Tx(transactionIndex, from, to, input, status, logs) ==
    [ hash |-> TxHash, blockNumber |-> 1, blockHash |-> <<1, "x">>, transactionIndex |-> transactionIndex,
      from |-> from, to |-> to, input |-> input, status |-> status, logs |-> logs ]

Log(logIndex, address, topic, hashId, addressArg, previousArg) ==
    [ logIndex |-> logIndex, address |-> address, topic |-> topic, decodes |-> TRUE,
      args |-> [ hashId |-> hashId, address |-> addressArg, previous |-> previousArg ] ]

Indexes == 0..MaxIndex

\* Decoded address arguments are checksummed.
DecodedUsers == { checksumAddress(u) : u \in Users }

\* input = "0x" + one 32-byte word
DirectTransferTxs ==
    { Tx(i, from, to, WordsInput(<<w>>), "success", <<>>) :
        i \in Indexes, from \in Users, to \in Users \cup {NULL}, w \in HashIds }

\* Batches: 2..MaxBatch distinct words.
BatchWords ==
    { ws \in UNION { [1..n -> Words] : n \in 2..MaxBatch } :
        \A j, k \in DOMAIN ws : j # k => ws[j] # ws[k] }

BatchTransferTxs ==
    { Tx(i, "0xa", to, WordsInput(ws), "success", <<>>) :
        i \in Indexes, to \in {"0xb", NULL}, ws \in BatchWords }

Esip1Logs ==
    { Log(li, a, "esip1", "h1", r, NULL) : li \in Indexes, a \in Users, r \in DecodedUsers }

Esip2Logs ==
    { Log(li, a, "esip2", "h1", r, p) :
        li \in Indexes, a \in Users, r \in DecodedUsers, p \in DecodedUsers }

\* A contract call whose receipt carries one ESIP-1 or ESIP-2 transfer log.
LogTransferTxs ==
    { Tx(i, "0xa", marketAddressL1, CallInput, "success", <<log>>) :
        i \in Indexes, log \in Esip1Logs \cup Esip2Logs }

\* A direct transfer of h1 to 0xb whose receipt also carries an ESIP-1 transfer
\* of h1 by 0xb.
MixedTransferTxs ==
    { Tx(i, "0xa", "0xb", WordsInput(<<"h1">>), "success",
         <<Log(li, "0xb", "esip1", "h1", "0xA", NULL)>>) :
        i \in Indexes, li \in Indexes }

\* Logs of every vocabulary, each of which acts when its transaction is handled.
LogBundle ==
    << Log(0, "0xa", "esip1", "h1", "0xB", NULL),
       Log(1, marketAddressL1, "PhunkOffered", "h1", zeroAddress, NULL),
       Log(2, pointsAddressL1, "PointsAdded", NULL, "0xA", NULL) >>

BridgeBundle ==
    << Log(0, "0xb", "esip1", "h1", "0xA", NULL),
       Log(1, bridgeAddressL1, "HashLocked", "h1", NULL, "0xA") >>

DataInputs ==
    { DataInput(nuls, d[1], d[2]) :
        nuls \in BOOLEAN,
        d \in { <<"image/svg+xml,", "p1">>, <<"image/png;base64,", "p3">>,
                <<"image/svg+xml,", "p9">>, <<"text/plain,", "hi">> } }

\* Calldata that starts with "data:", with and without receipt logs.
DataTxs ==
    { Tx(0, "0xa", to, input, "success", logs) :
        to \in {"0xb", NULL}, input \in DataInputs,
        logs \in {<<>>, LogBundle, BridgeBundle} }

\* Logs of the marketplace contract about h1: an open offer, a cancellation, a
\* purchase by 0xb from 0xa, a bid of 0xb and its withdrawal.
MarketLogs ==
    { Log(li, marketAddressL1, "PhunkOffered", "h1", zeroAddress, NULL) : li \in Indexes }
    \cup { Log(li, marketAddressL1, "PhunkNoLongerForSale", "h1", NULL, NULL) : li \in Indexes }
    \cup { Log(li, marketAddressL1, "PhunkBought", "h1", "0xB", "0xA") : li \in Indexes }
    \cup { Log(li, marketAddressL1, "PhunkBidEntered", "h1", NULL, "0xB") : li \in Indexes }
    \cup { Log(li, marketAddressL1, "PhunkBidWithdrawn", "h1", NULL, NULL) : li \in Indexes }

\* A call of the marketplace contract whose receipt carries one of its logs.
MarketLogTxs ==
    { Tx(i, from, marketAddressL1, CallInput, "success", <<log>>) :
        i \in Indexes, from \in Users, log \in MarketLogs }

\* Receipts with two logs about h1: a deposit by ESIP-1 followed by the offer,
\* a purchase (the escrow's ESIP-2 transfer followed by PhunkBought), an offer
\* followed by the deposit, and an ESIP-2 transfer followed by an ESIP-1
\* transfer back.
TwoLogs(from) ==
    { << Log(0, from, "esip1", "h1", checksumAddress(marketAddressL1), NULL),
         Log(1, marketAddressL1, "PhunkOffered", "h1", zeroAddress, NULL) >>,
      << Log(0, marketAddressL1, "esip2", "h1", "0xB", "0xA"),
         Log(1, marketAddressL1, "PhunkBought", "h1", "0xB", "0xA") >>,
      << Log(0, marketAddressL1, "PhunkOffered", "h1", zeroAddress, NULL),
         Log(1, from, "esip1", "h1", checksumAddress(marketAddressL1), NULL) >>,
      << Log(0, "0xa", "esip2", "h1", "0xB", "0xB"),
         Log(1, "0xb", "esip1", "h1", "0xA", NULL) >> }

TwoLogTxs ==
    UNION { { Tx(0, from, marketAddressL1, CallInput, "success", logs) :
                logs \in TwoLogs(from) } : from \in Users }

Transactions ==
    DirectTransferTxs \cup BatchTransferTxs \cup LogTransferTxs
        \cup MixedTransferTxs \cup DataTxs

\* Transfers of h1 into and out of the marketplace escrow: direct transfers
\* between the users and to the marketplace, and the escrow's own ESIP-2
\* transfers.
EscrowTransferTxs ==
    { Tx(0, from, to, WordsInput(<<"h1">>), "success", <<>>) :
        from \in Users, to \in Users \cup {marketAddressL1} }
    \cup { Tx(0, from, marketAddressL1, CallInput, "success",
              <<Log(1, marketAddressL1, "esip2", "h1", r, p)>>) :
            from \in Users, r \in DecodedUsers, p \in DecodedUsers }

\* A deposit of h1 by calldata whose receipt carries the offer.
DepositAndOfferTxs ==
    { Tx(0, from, marketAddressL1, WordsInput(<<"h1">>), "success",
         <<Log(0, marketAddressL1, "PhunkOffered", "h1", zeroAddress, NULL)>>) :
        from \in Users }

\* The transactions of the marketplace flows.
MarketTransactions ==
    EscrowTransferTxs \cup MarketLogTxs \cup TwoLogTxs \cup DepositAndOfferTxs

RECURSIVE SubSeqs(_)
SubSeqs(s) ==
    IF s = <<>> THEN {<<>>}
    ELSE LET rest == SubSeqs(Tail(s))
         IN rest \cup { <<Head(s)>> \o r : r \in rest }

\* getValidTransactions(allHashes) answers a subset of allHashes, in their order.
ValidAnswers(transaction) ==
    IF transaction.input.hexLen > SEGMENT_SIZE
    THEN SubSeqs(transaction.input.words)
    ELSE {<<>>}

\* new Date().getTime() is read only as the last fallback of a contract
\* transfer's txId; when it is not read its value is of no consequence.
ClockAnswers(transaction) ==
    IF /\ transaction.transactionIndex = 0
       /\ \E k \in DOMAIN transaction.logs : transaction.logs[k].logIndex = 0
    THEN Clock
    ELSE { CHOOSE t \in Clock : \A u \in Clock : t <= u }

Answers(transaction) ==
    { [ now |-> t, validHashes |-> v, chainPoints |-> [ ok |-> TRUE, points |-> 7 ] ] :
        t \in ClockAnswers(transaction), v \in ValidAnswers(transaction) }

-----------------------------------------------------------------------------
(* State machine *)

\* process.env.ORIGIN_BLOCK_MAINNET
originBlock == 1

InitialRow(h, owner) ==
    [ hashId |-> h, sha |-> ShaOfHashId(h), tokenId |-> PhunkShas[ShaOfHashId(h)],
      owner |-> owner, prevOwner |-> NULL, creator |-> owner, locked |-> FALSE ]

\* The datastore as an earlier run left it: each ethscription of the collection
\* inscribed (owned by its first holder) or not yet seen; nothing else.
Init ==
    /\ \E rows \in [HashIds -> {Nothing} \cup UNION {{InitialRow(h, u) : u \in Users} : h \in HashIds}] :
          /\ \A h \in HashIds : rows[h] # Nothing => rows[h].hashId = h
          /\ ethscriptions = [h \in AllHashIds |-> IF h \in HashIds THEN rows[h] ELSE Nothing]
    /\ listings = [h \in AllHashIds |-> Nothing]
    /\ bids = [h \in AllHashIds |-> Nothing]
    /\ userPoints = [u \in Users |-> 0]
    /\ bridgeQueue = {}
    /\ eventsTable = {}
    /\ lastBlock = 0
    /\ processedBlocks = <<>>
    /\ block = Nothing
    /\ frames = <<>>
    /\ lastRun = Nothing
    /\ indexer = [ phase |-> "constructed", head |-> originBlock, paused |-> FALSE,
                   startBlock |-> 0, latest |-> 0, cursor |-> 0, notified |-> 0,
                   queue |-> <<>>, backfilled |-> <<>> ]
    /\ replay = [ phase |-> "first", blocks |-> <<>>, cursor |-> 0, snapshot |-> Nothing,
                  request |-> Nothing ]
    /\ pc = "idle"
    /\ lastTx = Nothing
    /\ lastEnv = Nothing
    /\ pre = Nothing
    /\ lastResult = Nothing

\* ProcessingService.processTransaction on one transaction of the chain: the
\* worker awaits it and is handed its events, or its exception.
processTransaction(transaction, env) ==
    LET r == IF transaction.status # "success"
             THEN Return(Db, <<>>)
             ELSE processEthscriptionsEvents(Db, transaction, env)
    IN
    /\ pc = "idle"
    /\ pc' = "returned"
    /\ ethscriptions' = r.db.ethscriptions
    /\ listings' = r.db.listings
    /\ bids' = r.db.bids
    /\ userPoints' = r.db.userPoints
    /\ bridgeQueue' = r.db.bridgeQueue
    /\ lastTx' = transaction
    /\ lastEnv' = env
    /\ pre' = Db
    /\ lastResult' = [ events |-> r.events, threw |-> r.threw ]
    /\ UNCHANGED blockVars

\* The worker takes the result (events.push(...transactionEvents), or the catch
\* block) and moves on to the next transaction; the call's frame is gone.
NextTransaction ==
    /\ pc = "returned"
    /\ pc' = "idle"
    /\ lastTx' = Nothing
    /\ lastEnv' = Nothing
    /\ pre' = Nothing
    /\ lastResult' = Nothing
    /\ UNCHANGED <<ethscriptions, listings, bids, userPoints, bridgeQueue, blockVars>>

Next ==
    \/ \E transaction \in Transactions : \E env \in Answers(transaction) :
          processTransaction(transaction, env)
    \/ NextTransaction

Spec == Init /\ [][Next]_vars

\* The same worker on the transactions of the marketplace flows.
MarketNext ==
    \/ \E transaction \in MarketTransactions : \E env \in Answers(transaction) :
          processTransaction(transaction, env)
    \/ NextTransaction

MarketSpec == Init /\ [][MarketNext]_vars

\* Receipts with logs of the points, bridge and auction contracts next to
\* transfer and marketplace logs, and logs that decodeEventLog rejects (an
\* event that is not in the ABI, or malformed data).
Undecodable(log) == [log EXCEPT !.decodes = FALSE]

SideLogsAt(li) ==
    { Log(li, pointsAddressL1, "PointsAdded", NULL, "0xA", NULL),
      Log(li, bridgeAddressL1, "HashLocked", "h1", NULL, "0xA"),
      Log(li, bridgeAddressL1, "HashLocked", "h2", NULL, "0xA"),
      Log(li, bridgeAddressL1, "HashUnlocked", "h1", NULL, "0xA"),
      Log(li, marketAddressL1, "PhunkBidEntered", "h1", NULL, "0xB"),
      Log(li, marketAddressL1, "PhunkOffered", "h1", zeroAddress, NULL),
      Log(li, "0xa", "esip1", "h1", "0xB", NULL),
      Log(li, auctionAddress, "AuctionSettled", "h1", "0xB", NULL),
      Undecodable(Log(li, "0xa", "esip1", NULL, NULL, NULL)),
      Undecodable(Log(li, "0xa", "esip2", NULL, NULL, NULL)),
      Undecodable(Log(li, marketAddressL1, "Unknown", NULL, NULL, NULL)),
      Undecodable(Log(li, pointsAddressL1, "Unknown", NULL, NULL, NULL)),
      Undecodable(Log(li, bridgeAddressL1, "Unknown", NULL, NULL, NULL)) }

SideLogTxs ==
    { Tx(0, "0xa", marketAddressL1, CallInput, "success", <<log>>) : log \in SideLogsAt(0) }
    \cup { Tx(0, "0xa", marketAddressL1, CallInput, "success", <<first, second>>) :
             first \in SideLogsAt(0), second \in SideLogsAt(1) }

\* Direct transfers of h1 between the users and to the auction house.
AuctionDepositTxs ==
    { Tx(0, from, to, WordsInput(<<"h1">>), "success", <<>>) :
        from \in Users, to \in Users \cup {auctionAddress} }

SideTransactions == SideLogTxs \cup AuctionDepositTxs

\* The same worker on receipts with points, bridge and auction logs.
SideNext ==
    \/ \E transaction \in SideTransactions : \E env \in Answers(transaction) :
          processTransaction(transaction, env)
    \/ NextTransaction

SideSpec == Init /\ [][SideNext]_vars

-----------------------------------------------------------------------------
(* Blocks: ProcessingService.processBlock, processTransactions, retryBlock.  *)
(* A block is its number and its transactions in the order the chain client  *)
(* returned them.                                                            *)

CONFIRMATIONS == 6

BLOCK_HISTORY == 30

\* input = '0x'
EmptyInput == [ hexLen |-> 0, text |-> <<>>, words |-> <<>> ]

\* A filter that keeps every transaction.
AnyInput(transaction) == TRUE

\* txn.transaction.input !== '0x'
HasInput(transaction) == transaction.input.hexLen # 0

RECURSIVE InsertByIndex(_, _)
InsertByIndex(transaction, sorted) ==
    IF sorted = <<>> THEN <<transaction>>
    ELSE IF transaction.transactionIndex <= Head(sorted).transactionIndex
         THEN <<transaction>> \o sorted
    ELSE <<Head(sorted)>> \o InsertByIndex(transaction, Tail(sorted))

\* A loop that takes the transactions as the chain client returned them.
KeepClientOrder(txns) == txns

\* txns.sort((a, b) => a.receipt.transactionIndex - b.receipt.transactionIndex)
RECURSIVE SortByTransactionIndex(_)
SortByTransactionIndex(txns) ==
    IF txns = <<>> THEN <<>>
    ELSE InsertByIndex(Head(txns), SortByTransactionIndex(Tail(txns)))

\* A processTransactions call at its first iteration: the filtered and sorted
\* transactions, the loop index, the events collected, and (history) the
\* transactionIndex of every transaction the loop has started, the number of
\* retryBlock calls that returned to it or beneath it, the events those calls
\* have let go, and how often each transaction has changed the datastore in it
\* or beneath it.
Counted(n) == IF n > MaxApplied THEN MaxApplied ELSE n

NewFrame(txns) ==
    [ txns    |-> SortByTransactionIndex(SelectSeq(txns, HasInput)),
      i       |-> 1,
      events  |-> <<>>,
      started |-> <<>>,
      retries |-> 0,
      dropped |-> {},
      applied |-> [ k \in Indexes |-> 0 ] ]

\* ProcessingService.processTransaction as a function of the datastore.
TransactionResult(db, transaction, env) ==
    IF transaction.status # "success" THEN Return(db, <<>>)
    ELSE processEthscriptionsEvents(db, transaction, env)

\* addEvents(events): idempotent on txId.
addEvents(table, events) ==
    table \cup { events[k] : k \in { j \in DOMAIN events :
                     \A e \in table : e.txId # events[j].txId } }

\* The transactions of a block have different hashes.
BlockTx(i, from, to, input) ==
    [Tx(i, from, to, input, "success", <<>>) EXCEPT !.hash = <<TxHash, i>>]

\* Blocks of direct transfers of h1 (one of them by a transaction without
\* recipient) and of transactions without calldata.
BlockTxs ==
    { BlockTx(i, d[1], d[2], WordsInput(<<"h1">>)) :
        i \in Indexes,
        d \in { <<"0xa", "0xb">>, <<"0xb", "0xa">>, <<"0xa", marketAddressL1>>,
                <<"0xa", NULL>> } }
    \cup { BlockTx(i, "0xa", "0xb", EmptyInput) : i \in Indexes }

Blocks ==
    { b \in UNION { [1..n -> BlockTxs] : n \in 1..MaxBlockSize } :
        \A j, k \in DOMAIN b : j # k => b[j].transactionIndex # b[k].transactionIndex }

\* The chain may hold two blocks of one height.
Forks == {"x", "y"}

\* The hash of the block of height n on a fork.
BlockHash(n, fork) == <<n, fork>>

\* getBlock({ blockNumber: n, includeTransactions: true }): the block of
\* height n on a fork whose parent is on parentFork, with its transactions.
ChainBlock(n, fork, parentFork, txns) ==
    [ number       |-> n,
      hash         |-> BlockHash(n, fork),
      parentHash   |-> BlockHash(n - 1, parentFork),
      transactions |-> [ k \in DOMAIN txns |->
                           [txns[k] EXCEPT !.blockNumber = n,
                                           !.blockHash = BlockHash(n, fork),
                                           !.hash = <<TxHash, n, fork, txns[k].transactionIndex>>] ] ]

\* getBlock(n) fails, or answers the block of another height.
WrongAnswers(n) ==
    {Nothing} \cup { ChainBlock(n + 1, "x", "x", txns) : txns \in Blocks }

TopFrame == frames[Len(frames)]

Range(seq) == { seq[k] : k \in DOMAIN seq }

\* A processBlock that takes whatever block the chain client answers.
NumberIsNotChecked(n, answer) == TRUE

\* if (n !== Number(number)) throw new Error('Block number mismatch')
NumberMatches(n, answer) == n = answer.number

\* processBlock(n) up to its call of processTransactions: getBlock, whose
\* answer is a block or a failure (Nothing), the number check, filter and sort.
\* (The call of checkForReorg is commented out.)  The request and its answer
\* are kept as history.
processBlockCall(n, answer) ==
    /\ block = Nothing
    /\ replay' = [replay EXCEPT !.request = [ n |-> n, answer |-> answer ]]
    /\ IF answer = Nothing \/ ~NumberMatches(n, answer)
       THEN UNCHANGED <<block, frames>>
       ELSE /\ block' = answer
            /\ frames' = <<NewFrame(answer.transactions)>>
    /\ UNCHANGED <<ethscriptions, listings, bids, userPoints, bridgeQueue,
                   eventsTable, lastBlock, processedBlocks, lastRun,
                   indexer,
                   pc, lastTx, lastEnv, pre, lastResult>>

\* processBlock(n) when getBlock answers block b of that number.
processBlock(b) == processBlockCall(b.number, b)

\* A request to the datastore is rejected (connection reset, timeout) before
\* the transaction has written anything: the awaited call throws.
DatastoreRejects(db) == Throw(db)

\* One iteration of the loop of processTransactions: processTransaction is
\* awaited; its events are pushed, or its exception is caught and retryBlock
\* fetches the block again and starts processTransactions on it.
processTransactionsStep(env, rejected) ==
    /\ block # Nothing
    /\ frames # <<>>
    /\ TopFrame.i <= Len(TopFrame.txns)
    /\ LET top == TopFrame
           transaction == top.txns[top.i]
           r == IF rejected THEN DatastoreRejects(Db)
                ELSE TransactionResult(Db, transaction, env)
           started == Append(top.started, transaction.transactionIndex)
       IN
       /\ env \in Answers(transaction)
       /\ ethscriptions' = r.db.ethscriptions
       /\ listings' = r.db.listings
       /\ bids' = r.db.bids
       /\ userPoints' = r.db.userPoints
       /\ bridgeQueue' = r.db.bridgeQueue
       /\ IF r.threw
          THEN /\ Len(frames) < MaxRetryDepth
               /\ frames' = Append(
                     [frames EXCEPT ![Len(frames)] =
                         [top EXCEPT !.i = @ + 1, !.started = started]],
                     NewFrame(block.transactions))
          ELSE frames' = [frames EXCEPT ![Len(frames)] =
                             [top EXCEPT !.i = @ + 1,
                                         !.events = @ \o r.events,
                                         !.started = started,
                                         !.applied[transaction.transactionIndex] =
                                             IF r.db # Db THEN Counted(@ + 1) ELSE @]]
    /\ UNCHANGED <<eventsTable, lastBlock, processedBlocks, block, lastRun, replay,
                   indexer,
                   pc, lastTx, lastEnv, pre, lastResult>>

\* processTransactions called by retryBlock returns: its events are dropped
\* and the loop that caught the exception goes on.
retryBlockReturn ==
    /\ block # Nothing
    /\ Len(frames) > 1
    /\ TopFrame.i > Len(TopFrame.txns)
    /\ frames' = [ SubSeq(frames, 1, Len(frames) - 1) EXCEPT ![Len(frames) - 1] =
                     [@ EXCEPT !.retries = @ + 1 + TopFrame.retries,
                               !.dropped = @ \cup Range(TopFrame.events)
                                             \cup TopFrame.dropped,
                               !.applied = [ k \in Indexes |->
                                               Counted(@[k] + TopFrame.applied[k]) ]] ]
    /\ UNCHANGED <<ethscriptions, listings, bids, userPoints, bridgeQueue,
                   eventsTable, lastBlock, processedBlocks, block, lastRun, replay,
                   indexer,
                   pc, lastTx, lastEnv, pre, lastResult>>

\* What the processTransactions call of processBlock came to (history).
FinishedRun(b, frame) ==
    [ number  |-> b.number,
      fetched |-> b.transactions,
      started |-> frame.started,
      events  |-> frame.events,
      retries |-> frame.retries,
      dropped |-> frame.dropped,
      applied |-> frame.applied ]

\* processTransactions returns to processBlock, which awaits addEvents when
\* there are events.
processBlockAddEvents ==
    /\ block # Nothing
    /\ Len(frames) = 1
    /\ TopFrame.i > Len(TopFrame.txns)
    /\ eventsTable' = IF TopFrame.events # <<>>
                      THEN addEvents(eventsTable, TopFrame.events)
                      ELSE eventsTable
    /\ lastRun' = FinishedRun(block, TopFrame)
    /\ frames' = <<>>
    /\ UNCHANGED <<ethscriptions, listings, bids, userPoints, bridgeQueue,
                   lastBlock, processedBlocks, block, replay,
                   indexer,
                   pc, lastTx, lastEnv, pre, lastResult>>

\* The datastore rejects addEvents: the awaited call throws and processBlock
\* ends with that exception.
processBlockThrows ==
    /\ block # Nothing
    /\ Len(frames) = 1
    /\ TopFrame.i > Len(TopFrame.txns)
    /\ TopFrame.events # <<>>
    /\ block' = Nothing
    /\ frames' = <<>>
    /\ UNCHANGED <<ethscriptions, listings, bids, userPoints, bridgeQueue,
                   eventsTable, lastBlock, processedBlocks, lastRun, replay,
                   indexer,
                   pc, lastTx, lastEnv, pre, lastResult>>

\* checkForReorg(block): whether it throws, and the window it leaves.  Its
\* only call, in processBlock, is commented out.
checkForReorg(window, b) ==
    IF window = <<>> THEN [ threw |-> FALSE, window |-> window ]
    ELSE IF window[Len(window)].hash # b.parentHash
         THEN [ threw |-> TRUE, window |-> window ]
    ELSE IF Len(window) >= CONFIRMATIONS
         THEN [ threw |-> FALSE,
                window |-> [window EXCEPT ![Len(window) - CONFIRMATIONS + 1].confirmed = TRUE] ]
    ELSE [ threw |-> FALSE, window |-> window ]

\* A processed-block window that is never trimmed.
PushWithoutShift(window, b) ==
    Append(window, [ number |-> b.number, hash |-> b.hash,
                     parentHash |-> b.parentHash, confirmed |-> FALSE ])

\* this.processedBlocks.push(...); if (length > BLOCK_HISTORY) shift()
PushProcessedBlock(window, b) ==
    LET pushed == Append(window, [ number |-> b.number, hash |-> b.hash,
                                   parentHash |-> b.parentHash, confirmed |-> FALSE ])
    IN IF Len(pushed) > BLOCK_HISTORY THEN Tail(pushed) ELSE pushed

\* The blocks processed so far, and how far their reprocessing has come.
AfterBlock(r, b) ==
    IF r.phase = "first" THEN [r EXCEPT !.blocks = Append(@, b)]
    ELSE IF r.cursor < Len(r.blocks) THEN [r EXCEPT !.cursor = @ + 1]
    ELSE [r EXCEPT !.cursor = @ + 1, !.phase = "replayed"]

\* The end of processBlock: updateLastBlock, processedBlocks.
processBlockReturn ==
    /\ block # Nothing
    /\ frames = <<>>
    /\ lastBlock' = block.number
    /\ processedBlocks' = PushProcessedBlock(processedBlocks, block)
    /\ replay' = AfterBlock(replay, block)
    /\ block' = Nothing
    /\ UNCHANGED <<ethscriptions, listings, bids, userPoints, bridgeQueue,
                   eventsTable, frames, lastRun,
                   indexer,
                   pc, lastTx, lastEnv, pre, lastResult>>

\* What reprocessing is compared with: ownership, listings and events.
Snapshot ==
    [ owners   |-> [ h \in AllHashIds |->
                       IF ethscriptions[h] = Nothing THEN Nothing
                       ELSE [ owner     |-> ethscriptions[h].owner,
                              prevOwner |-> ethscriptions[h].prevOwner ] ],
      listings |-> listings,
      events   |-> eventsTable ]

\* The indexer starts again (startIndexer, reIndexBlock) and the queue hands
\* the worker the blocks from the k-th on once more.
startReplay(k) ==
    /\ block = Nothing
    /\ replay.phase = "first"
    /\ k \in 1..Len(replay.blocks)
    /\ replay' = [replay EXCEPT !.phase = "replay", !.cursor = k, !.snapshot = Snapshot]
    /\ UNCHANGED <<ethscriptions, listings, bids, userPoints, bridgeQueue,
                   eventsTable, lastBlock, processedBlocks, block, frames, lastRun,
                   indexer,
                   pc, lastTx, lastEnv, pre, lastResult>>

BlockNext ==
    \/ \E txns \in Blocks :
          /\ replay.phase = "first"
          /\ Len(replay.blocks) < MaxBlocks
          /\ processBlock(ChainBlock(Len(replay.blocks) + 1, "x", "x", txns))
    \/ /\ replay.phase = "replay"
       /\ processBlock(replay.blocks[replay.cursor])
    \/ \E env \in UNION { Answers(t) : t \in BlockTxs }, rejected \in BOOLEAN :
          processTransactionsStep(env, rejected)
    \/ retryBlockReturn
    \/ processBlockAddEvents
    \/ processBlockThrows
    \/ processBlockReturn
    \/ \E k \in 1..MaxBlocks : startReplay(k)

\* The datastore before the first block: h1 inscribed, h2 not yet seen.
BlockInit == Init /\ ethscriptions["h1"] # Nothing /\ ethscriptions["h2"] = Nothing

BlockSpec == BlockInit /\ [][BlockNext]_vars

\* Blocks of contract calls whose receipts carry one bridge log, and of direct
\* transfers of h1.
BlockLogTx(i, logs) ==
    [Tx(i, "0xa", marketAddressL1, CallInput, "success", logs) EXCEPT !.hash = <<TxHash, i>>]

BridgeBlockTxs ==
    { BlockLogTx(i, <<log>>) :
        i \in Indexes,
        log \in { Log(0, bridgeAddressL1, "HashLocked", "h1", NULL, "0xA"),
                  Log(0, bridgeAddressL1, "HashLocked", "h2", NULL, "0xA"),
                  Log(0, bridgeAddressL1, "HashUnlocked", "h1", NULL, "0xA") } }
    \cup { BlockTx(i, "0xa", "0xb", WordsInput(<<"h1">>)) : i \in Indexes }

BridgeBlocks ==
    { b \in UNION { [1..n -> BridgeBlockTxs] : n \in 1..MaxBlockSize } :
        \A j, k \in DOMAIN b : j # k => b[j].transactionIndex # b[k].transactionIndex }

\* processBlock on blocks with bridge logs, the datastore answering every
\* request.  A retryBlock that was started by a failed lock does not return:
\* the record is still missing when the block is processed again.
BridgeNext ==
    \/ \E txns \in BridgeBlocks :
          /\ replay.phase = "first"
          /\ Len(replay.blocks) < MaxBlocks
          /\ processBlock(ChainBlock(Len(replay.blocks) + 1, "x", "x", txns))
    \/ \E env \in UNION { Answers(t) : t \in BridgeBlockTxs } :
          processTransactionsStep(env, FALSE)
    \/ processBlockAddEvents
    \/ processBlockReturn

BridgeSpec == Init /\ [][BridgeNext]_vars

\* Blocks of transactions whose receipts carry an ESIP-1 transfer of h1 from
\* 0xa to 0xb: a call without calldata (input '0x'), a reverted direct
\* transfer of h1, and a successful contract call.
SkipBlockTxs ==
    UNION { { [Tx(i, "0xa", "0xb", d[1], d[2],
                  <<Log(0, "0xa", "esip1", "h1", "0xB", NULL)>>)
                 EXCEPT !.hash = <<TxHash, i>>] :
              d \in { <<EmptyInput, "success">>,
                      <<WordsInput(<<"h1">>), "reverted">>,
                      <<CallInput, "success">> } } : i \in Indexes }

SkipBlocks ==
    { b \in UNION { [1..n -> SkipBlockTxs] : n \in 1..MaxBlockSize } :
        \A j, k \in DOMAIN b : j # k => b[j].transactionIndex # b[k].transactionIndex }

\* processBlock on such blocks, the datastore answering every request.
SkipNext ==
    \/ \E txns \in SkipBlocks :
          /\ replay.phase = "first"
          /\ Len(replay.blocks) < MaxBlocks
          /\ processBlock(ChainBlock(Len(replay.blocks) + 1, "x", "x", txns))
    \/ \E env \in UNION { Answers(t) : t \in SkipBlockTxs } :
          processTransactionsStep(env, FALSE)
    \/ processBlockAddEvents
    \/ processBlockReturn

SkipSpec == Init /\ [][SkipNext]_vars

\* The same, the chain client also failing or answering another block.
FetchNext ==
    \/ BridgeNext
    \/ \E answer \in WrongAnswers(Len(replay.blocks) + 1) :
          /\ replay.phase = "first"
          /\ Len(replay.blocks) < MaxBlocks
          /\ processBlockCall(Len(replay.blocks) + 1, answer)

FetchSpec == Init /\ [][FetchNext]_vars

\* Blocks with at most one transfer of h1.
ChainBlocks ==
    { <<>> } \cup { <<BlockTx(0, d[1], d[2], WordsInput(<<"h1">>))>> :
                      d \in { <<"0xa", "0xb">>, <<"0xb", "0xa">> } }

\* The fork whose blocks the worker has followed last.
CurrentFork ==
    IF processedBlocks = <<>> THEN "x"
    ELSE processedBlocks[Len(processedBlocks)].hash[2]

\* A long chain: the first block holds at most one transfer of h1, the later
\* ones no transaction with calldata.
ChainNext ==
    \/ \E txns \in ChainBlocks :
          /\ lastBlock = 0
          /\ processBlock(ChainBlock(1, "x", "x", txns))
    \/ /\ lastBlock \in 1..(MaxChainLength - 1)
       /\ processBlock(ChainBlock(lastBlock + 1, "x", "x", <<>>))
    \/ \E env \in UNION { Answers(t) : t \in BlockTxs }, rejected \in BOOLEAN :
          processTransactionsStep(env, rejected)
    \/ retryBlockReturn
    \/ processBlockAddEvents
    \/ processBlockThrows
    \/ processBlockReturn

ChainSpec == BlockInit /\ [][ChainNext]_vars

Reorganised == \E k \in DOMAIN replay.blocks : replay.blocks[k].hash[2] = "y"

\* A chain that reorganises: after MaxTxBlocks blocks the chain replaces its
\* blocks from an earlier height on by a fork whose first block has the old
\* parent, and the worker is handed that block.
ReorgNext ==
    \/ \E txns \in ChainBlocks :
          /\ lastBlock < MaxTxBlocks
          /\ processBlock(ChainBlock(lastBlock + 1, CurrentFork, CurrentFork, txns))
    \/ \E n \in 2..MaxTxBlocks, txns \in ChainBlocks :
          /\ lastBlock = MaxTxBlocks
          /\ ~Reorganised
          /\ processBlock(ChainBlock(n, "y", "x", txns))
    \/ \E env \in UNION { Answers(t) : t \in BlockTxs }, rejected \in BOOLEAN :
          processTransactionsStep(env, rejected)
    \/ retryBlockReturn
    \/ processBlockAddEvents
    \/ processBlockThrows
    \/ processBlockReturn

ReorgSpec == BlockInit /\ [][ReorgNext]_vars

-----------------------------------------------------------------------------
(* Startup: AppService.startIndexer, startBackfill, startPolling.  The queue  *)
(* is the sequence of block numbers handed to addBlockToQueue.                *)

startVars == <<ethscriptions, listings, bids, userPoints, bridgeQueue,
               eventsTable, lastBlock, processedBlocks, block, frames, lastRun, replay,
               pc, lastTx, lastEnv, pre, lastResult>>

\* The chain grows by a block.
newHead ==
    /\ indexer.head < MaxHead
    /\ indexer' = [indexer EXCEPT !.head = @ + 1]
    /\ UNCHANGED startVars

\* startIndexer up to its call of startBackfill: pauseQueue, then
\* startBlock = getLastBlock() || originBlock.
startIndexer ==
    /\ indexer.phase = "constructed"
    /\ indexer' = [indexer EXCEPT !.phase = "paused",
                                  !.paused = TRUE,
                                  !.startBlock = IF lastBlock # 0 THEN lastBlock
                                                 ELSE originBlock]
    /\ UNCHANGED startVars

\* startBackfill up to its loop: getOrCreateBlockFile(startBlock), getBlock().
startBackfill ==
    /\ indexer.phase = "paused"
    /\ indexer' = [indexer EXCEPT !.phase = "backfill",
                                  !.cursor = indexer.startBlock,
                                  !.latest = indexer.head]
    /\ UNCHANGED startVars

\* while (blockNum < latestBlockNum)
BackfillGoesOn(blockNum, latestBlockNum) == blockNum < latestBlockNum

\* One iteration of the loop of startBackfill: addBlockToQueue(blockNum); blockNum++
startBackfillStep ==
    /\ indexer.phase = "backfill"
    /\ BackfillGoesOn(indexer.cursor, indexer.latest)
    /\ indexer' = [indexer EXCEPT !.queue = Append(@, indexer.cursor),
                                  !.cursor = @ + 1]
    /\ UNCHANGED startVars

\* The loop of startBackfill ends; startIndexer resumes the queue and starts
\* the block watcher.
startPolling ==
    /\ indexer.phase = "backfill"
    /\ ~BackfillGoesOn(indexer.cursor, indexer.latest)
    /\ indexer' = [indexer EXCEPT !.phase = "polling",
                                  !.paused = FALSE,
                                  !.backfilled = indexer.queue]
    /\ UNCHANGED startVars

\* watchBlocks: onBlock is called with the newest block when the watcher sees
\* that the head has moved, and adds its number to the queue.
onBlock ==
    /\ indexer.phase = "polling"
    /\ indexer.head # indexer.notified
    /\ indexer' = [indexer EXCEPT !.queue = Append(@, indexer.head),
                                  !.notified = indexer.head]
    /\ UNCHANGED startVars

StartNext ==
    \/ newHead
    \/ startIndexer
    \/ startBackfill
    \/ startBackfillStep
    \/ startPolling
    \/ onBlock

StartSpec == BlockInit /\ [][StartNext]_vars

-----------------------------------------------------------------------------
(* Vocabulary of the properties *)

Returned == pc = "returned"

SameAddress(a, b) == a # NULL /\ b # NULL /\ toLowerCase(a) = toLowerCase(b)

Recipient(to) == IF to = NULL THEN zeroAddress ELSE to

HexLen(transaction) == transaction.input.hexLen

StartsWithData(transaction) ==
    startsWith(stripNulls(transaction.input.text), DataPrefix)

\* A successful transaction whose calldata is exactly one 32-byte word.
IsDirectTransfer(transaction) ==
    /\ transaction.status = "success"
    /\ ~StartsWithData(transaction)
    /\ HexLen(transaction) = SEGMENT_SIZE

\* A successful transaction whose calldata is several 32-byte words.
IsBatchTransfer(transaction) ==
    /\ transaction.status = "success"
    /\ ~StartsWithData(transaction)
    /\ HexLen(transaction) > SEGMENT_SIZE
    /\ HexLen(transaction) % SEGMENT_SIZE = 0

\* A successful transaction that is no calldata transfer and whose receipt
\* carries exactly one log, of the given topic.
IsSingleLog(transaction, topic) ==
    /\ transaction.status = "success"
    /\ ~StartsWithData(transaction)
    /\ HexLen(transaction) % SEGMENT_SIZE # 0
    /\ Len(transaction.logs) = 1
    /\ transaction.logs[1].topic = topic
    /\ transaction.logs[1].decodes

OwnedBy(row, address) == row # Nothing /\ SameAddress(row.owner, address)

-----------------------------------------------------------------------------
(* Properties *)

DirectAttempts ==
    { [ hashId |-> h, txn |-> t, index |-> i ] :
        h \in Words, t \in DirectTransferTxs \cup BatchTransferTxs,
        i \in {<<>>} \cup { <<k>> : k \in 0..MaxBatch } }

ContractAttempts == { t \in LogTransferTxs : TRUE }

NoRecordOrNotOwner(db, hashId, from) ==
    LET row == checkEthscriptionExistsByHashId(db, hashId)
    IN row = Nothing \/ row.owner = NULL \/ toLowerCase(row.owner) # toLowerCase(from)

\* C2: a transfer attempt (direct, batch item, ESIP-1, ESIP-2) on a hashId with
\* no record, or whose record's owner differs from the attempt's 'from', is
\* rejected silently: the datastore is unchanged, no event is produced and no
\* error is raised.
C2_RejectedSilently ==
    /\ \A a \in DirectAttempts :
          NoRecordOrNotOwner(Db, a.hashId, a.txn.from) =>
            processTransferEvent(Db, a.hashId, a.txn, a.index) = Handled(Db, Nothing)
    /\ \A t \in ContractAttempts :
          LET log == t.logs[1] IN
          NoRecordOrNotOwner(Db, log.args.hashId, log.address) =>
            processContractTransferEvent(Db, t, log.address, log.args.address,
                log.args.hashId, log, log.args.previous, 1000) = Handled(Db, Nothing)


\* C2, for records whose owner is an address: holds (the only raised error is
\* owner.toLowerCase() on a record whose owner is null).
C2_RejectedSilentlyUnlessOwnerNull ==
    /\ \A a \in DirectAttempts :
          LET row == checkEthscriptionExistsByHashId(Db, a.hashId) IN
          (row = Nothing \/ (row.owner # NULL /\ ~SameAddress(row.owner, a.txn.from))) =>
            processTransferEvent(Db, a.hashId, a.txn, a.index) = Handled(Db, Nothing)
    /\ \A t \in ContractAttempts :
          LET log == t.logs[1]
              row == checkEthscriptionExistsByHashId(Db, log.args.hashId) IN
          (row = Nothing \/ (row.owner # NULL /\ ~SameAddress(row.owner, log.address))) =>
            processContractTransferEvent(Db, t, log.address, log.args.address,
                log.args.hashId, log, log.args.previous, 1000) = Handled(Db, Nothing)

\* The 'transfer' events of the last call whose hashId has no other event in it.
SoleTransferEvents ==
    { e \in Range(lastResult.events) :
        /\ e.type = "transfer"
        /\ \A k, l \in DOMAIN lastResult.events :
              (lastResult.events[k].hashId = e.hashId /\ lastResult.events[l].hashId = e.hashId)
                 => k = l }

\* C3: ownership conservation: for every 'transfer' event, the stored owner
\* before the event is event.from and the stored owner after it is event.to,
\* also when tx.to is absent and event.to is the zero address.
C3_OwnershipConservation ==
    Returned =>
      \A e \in SoleTransferEvents :
        /\ pre.ethscriptions[e.hashId] # Nothing
        /\ SameAddress(pre.ethscriptions[e.hashId].owner, e.from)
        /\ SameAddress(ethscriptions[e.hashId].owner, e.to)

\* C3 for transfers that name a recipient: holds.
C3_OwnershipConservationWithRecipient ==
    (Returned /\ (IsDirectTransfer(lastTx) \/ IsBatchTransfer(lastTx) => lastTx.to # NULL)) =>
      \A e \in SoleTransferEvents :
        /\ pre.ethscriptions[e.hashId] # Nothing
        /\ SameAddress(pre.ethscriptions[e.hashId].owner, e.from)
        /\ SameAddress(ethscriptions[e.hashId].owner, e.to)

\* C4: an ESIP-2 log transfer whose previousOwner hint and the record's
\* prevOwner are both present and differ is rejected: no ownership change, no
\* event.  An ESIP-1 log transfer carries no hint: it is accepted whenever the
\* record exists and is owned by the emitting contract, whatever its prevOwner.
C4_PrevOwnerAgreement ==
    /\ (Returned /\ IsSingleLog(lastTx, "esip2")) =>
         LET log == lastTx.logs[1]
             before == pre.ethscriptions[log.args.hashId]
         IN (/\ before # Nothing
             /\ before.prevOwner # NULL
             /\ log.args.previous # NULL
             /\ ~SameAddress(before.prevOwner, log.args.previous)) =>
               /\ ethscriptions = pre.ethscriptions
               /\ lastResult.events = <<>>
    /\ (Returned /\ IsSingleLog(lastTx, "esip1")) =>
         LET log == lastTx.logs[1]
             before == pre.ethscriptions[log.args.hashId]
         IN OwnedBy(before, log.address) =>
               /\ SameAddress(ethscriptions[log.args.hashId].owner, log.args.address)
               /\ ethscriptions[log.args.hashId].prevOwner = before.owner
               /\ Len(lastResult.events) = 1
               /\ lastResult.events[1].type = "transfer"

\* An ESIP-2 transfer by the owning contract, rejected only for its hint.
C4_Witness ==
    /\ Returned /\ IsSingleLog(lastTx, "esip2")
    /\ OwnedBy(pre.ethscriptions["h1"], lastTx.logs[1].address)
    /\ pre.ethscriptions["h1"].prevOwner = "0xb"
    /\ lastTx.logs[1].args.previous = "0xA"
    /\ ethscriptions = pre.ethscriptions
    /\ lastResult.events = <<>>


\* A successful transaction whose cleaned calldata starts with one of the two
\* phunk image prefixes.
IsCreationCandidate(transaction) ==
    /\ transaction.status = "success"
    /\ possibleEthPhunk(stripNulls(transaction.input.text))

ShaOfCalldata(transaction) == sha256(stripNulls(transaction.input.text))

\* C5: a creation candidate inserts a new Ethscription (owner = tx.to or the
\* zero address, prevOwner = null, tokenId from the dictionary) and emits
\* exactly one 'created' event if and only if its SHA-256 is in the dictionary
\* and not inscribed yet; otherwise nothing is inserted and nothing is emitted.
C5_CreationInsertsIffNovel ==
    (Returned /\ IsCreationCandidate(lastTx)) =>
      LET sha == ShaOfCalldata(lastTx)
          novel == sha \in DOMAIN PhunkShas /\ ~checkEthscriptionExistsBySha(pre, sha)
          row == ethscriptions[lastTx.hash]
      IN IF novel
         THEN /\ row # Nothing
              /\ row.sha = sha
              /\ row.owner = toLowerCase(Recipient(lastTx.to))
              /\ row.prevOwner = NULL
              /\ row.tokenId = PhunkShas[sha]
              /\ Len(lastResult.events) = 1
              /\ lastResult.events[1].type = "created"
         ELSE /\ ethscriptions = pre.ethscriptions
              /\ lastResult.events = <<>>

NoSharedSha(rows) ==
    \A h, k \in DOMAIN rows :
        (rows[h] # Nothing /\ rows[k] # Nothing /\ rows[h].sha = rows[k].sha) => h = k

\* C6: no two Ethscription records share a sha; a creation whose SHA is
\* already inscribed is ignored and leaves the inscribed record unchanged.
\* Stated of the transactions as processed and of the creation branch itself
\* (dictionary lookup, duplicate check, insert) on every datastore reached.
C6_ShaUnique ==
    /\ NoSharedSha(ethscriptions)
    /\ (Returned /\ IsCreationCandidate(lastTx)
          /\ checkEthscriptionExistsBySha(pre, ShaOfCalldata(lastTx))) =>
         /\ ethscriptions = pre.ethscriptions
         /\ lastResult.events = <<>>
    /\ \A t \in DataTxs :
         IsCreationCandidate(t) =>
           LET r == CreationStage(Db, t, stripNulls(t.input.text)) IN
           /\ NoSharedSha(r.db.ethscriptions)
           /\ checkEthscriptionExistsBySha(Db, ShaOfCalldata(t)) =>
                (r.db = Db /\ r.events = <<>>)

C6_Witness ==
    /\ Returned /\ IsCreationCandidate(lastTx)
    /\ pre.ethscriptions["h1"] # Nothing
    /\ pre.ethscriptions["h1"].sha = ShaOfCalldata(lastTx)
    /\ pre.ethscriptions["h1"].owner = "0xb"
    /\ ethscriptions = pre.ethscriptions
    /\ lastResult.events = <<>>

\* C7: a successful transaction whose cleaned calldata starts with 'data:'
\* but with neither phunk image prefix is ignored entirely: no events, no
\* change of ownership, listing, lock or points state, none of its logs handled.
C7_OtherDataUriIgnored ==
    (Returned /\ lastTx.status = "success" /\ StartsWithData(lastTx)
        /\ ~IsCreationCandidate(lastTx)) =>
      /\ lastResult.events = <<>>
      /\ ~lastResult.threw
      /\ Db = pre

\* Such a transaction, carrying logs that act when handled.
C7_Witness ==
    /\ Returned /\ lastTx.status = "success" /\ StartsWithData(lastTx)
    /\ ~IsCreationCandidate(lastTx)
    /\ lastTx.logs = LogBundle
    /\ OwnedBy(pre.ethscriptions["h1"], "0xa")
    /\ Db = pre
    /\ lastResult.events = <<>>

PositionOf(seq, x) == CHOOSE k \in DOMAIN seq : seq[k] = x

\* C8: in a batch transfer only the words getValidTransactions returned are
\* attempted, each as a direct transfer from tx.from to tx.to, in their order
\* within the calldata; a word not returned changes nothing and yields no
\* event even when tx.from owns it.
C8_BatchOnlyValidWords ==
    (Returned /\ IsBatchTransfer(lastTx)) =>
      LET words == lastTx.input.words
          valid == lastEnv.validHashes
          accepted == SelectSeq(valid,
                        LAMBDA h : OwnedBy(pre.ethscriptions[h], lastTx.from))
          events == lastResult.events
      IN
      /\ ~lastResult.threw
      /\ \A h \in AllHashIds \ Range(accepted) :
            /\ ethscriptions[h] = pre.ethscriptions[h]
            /\ \A k \in DOMAIN events : events[k].hashId # h
      /\ Len(events) = Len(accepted)
      /\ \A k \in DOMAIN events :
            /\ events[k].hashId = accepted[k]
            /\ events[k].type = "transfer"
            /\ SameAddress(events[k].from, lastTx.from)
            /\ events[k].to = toLowerCase(Recipient(lastTx.to))
      /\ \A k, l \in DOMAIN events :
            k < l => PositionOf(words, events[k].hashId) < PositionOf(words, events[l].hashId)
      /\ \A h \in Range(accepted) :
            /\ ethscriptions[h].owner = StoreAddress(lastTx.to)
            /\ ethscriptions[h].prevOwner = pre.ethscriptions[h].owner

\* A batch with a word tx.from owns that was not returned, and one that was.
C8_Witness ==
    /\ Returned /\ IsBatchTransfer(lastTx)
    /\ lastTx.input.words = <<"h1", "h3", "h2">>
    /\ lastEnv.validHashes = <<"h3", "h2">>
    /\ OwnedBy(pre.ethscriptions["h1"], lastTx.from)
    /\ OwnedBy(pre.ethscriptions["h2"], lastTx.from)
    /\ ethscriptions["h1"] = pre.ethscriptions["h1"]
    /\ ethscriptions["h2"].owner = "0xb"
    /\ Len(lastResult.events) = 1

\* C9: each transfer event of a batch transfer has txId = txHash followed by
\* the position (counted from 0, as the loop does) of its word within the batch
\* calldata.
C9_BatchTxIdIsCalldataPosition ==
    (Returned /\ IsBatchTransfer(lastTx)) =>
      \A k \in DOMAIN lastResult.events :
        lastResult.events[k].txId =
          <<lastTx.hash, PositionOf(lastTx.input.words, lastResult.events[k].hashId) - 1>>

TxIds(events) == [ k \in DOMAIN events |-> events[k].txId ]

\* C10: the events of one transaction have pairwise different txId values, and
\* processing the same transaction again yields the same txIds.
C10_TxIdUniqueAndDeterministic ==
    Returned =>
      /\ \A k, l \in DOMAIN lastResult.events :
            k # l => lastResult.events[k].txId # lastResult.events[l].txId
      /\ \A t \in Clock :
            TxIds(processEthscriptionsEvents(pre, lastTx, [lastEnv EXCEPT !.now = t]).events)
              = TxIds(lastResult.events)

\* C10, first half alone.
C10_TxIdUnique ==
    Returned =>
      \A k, l \in DOMAIN lastResult.events :
         k # l => lastResult.events[k].txId # lastResult.events[l].txId

\* C10, second half alone.
C10_TxIdDeterministic ==
    Returned =>
      \A t \in Clock :
         TxIds(processEthscriptionsEvents(pre, lastTx, [lastEnv EXCEPT !.now = t]).events)
           = TxIds(lastResult.events)


-----------------------------------------------------------------------------
(* Marketplace properties *)

\* The marketplace log of a transaction that carries exactly one log.
MarketLogOf(transaction) == transaction.logs[1]

\* A transaction whose only log is the given marketplace event about an
\* ethscription that exists.
IsMarketLogAboutRecord(transaction, topic, db) ==
    /\ IsSingleLog(transaction, topic)
    /\ toLowerCase(MarketLogOf(transaction).address) = marketAddressL1
    /\ MarketLogOf(transaction).args.hashId # NULL
    /\ db.ethscriptions[MarketLogOf(transaction).args.hashId] # Nothing

\* C12: a PhunkOffered log about an existing ethscription upserts the listing
\* and emits a 'PhunkOffered' event if and only if the ethscription's prevOwner
\* is null or equals tx.from; otherwise the listing of the hashId is deleted,
\* none is created and no event is emitted.
C12_OfferedIffByPrevOwner ==
    (Returned /\ IsMarketLogAboutRecord(lastTx, "PhunkOffered", pre)) =>
      LET log == MarketLogOf(lastTx)
          h == log.args.hashId
          phunk == pre.ethscriptions[h]
      IN
      /\ ethscriptions = pre.ethscriptions
      /\ IF phunk.prevOwner = NULL \/ SameAddress(phunk.prevOwner, lastTx.from)
         THEN /\ listings[h] # Nothing
              /\ listings[h].seller = lastTx.from
              /\ listings[h].toAddress = toLowerCase(log.args.address)
              /\ Len(lastResult.events) = 1
              /\ lastResult.events[1].type = "PhunkOffered"
              /\ lastResult.events[1].hashId = h
              /\ lastResult.events[1].from = lastTx.from
         ELSE /\ listings[h] = Nothing
              /\ lastResult.events = <<>>

\* Scenario S5: an offer by someone who is not the previous owner deletes the
\* listing that was there.
C12_Witness ==
    /\ Returned /\ IsMarketLogAboutRecord(lastTx, "PhunkOffered", pre)
    /\ pre.ethscriptions["h1"].owner = marketAddressL1
    /\ pre.ethscriptions["h1"].prevOwner = "0xa"
    /\ lastTx.from = "0xb"
    /\ pre.listings["h1"] # Nothing
    /\ listings["h1"] = Nothing
    /\ lastResult.events = <<>>

\* C13: a PhunkBought log removes the listing of the hashId, and a
\* 'PhunkBought' event is emitted if and only if that call removed a listing.
C13_BoughtReportedIffRemoved ==
    (Returned /\ IsMarketLogAboutRecord(lastTx, "PhunkBought", pre)) =>
      LET log == MarketLogOf(lastTx)
          h == log.args.hashId
      IN
      /\ listings[h] = Nothing
      /\ ethscriptions = pre.ethscriptions
      /\ IF pre.listings[h] # Nothing
         THEN /\ Len(lastResult.events) = 1
              /\ lastResult.events[1].type = "PhunkBought"
              /\ lastResult.events[1].hashId = h
              /\ SameAddress(lastResult.events[1].from, log.args.previous)
              /\ SameAddress(lastResult.events[1].to, log.args.address)
         ELSE lastResult.events = <<>>

\* A purchase racing a cancellation: no listing is left to remove, no event.
C13_Witness ==
    /\ Returned /\ IsMarketLogAboutRecord(lastTx, "PhunkBought", pre)
    /\ pre.ethscriptions["h1"].owner = marketAddressL1
    /\ pre.listings["h1"] = Nothing
    /\ listings["h1"] = Nothing
    /\ lastResult.events = <<>>

\* C14: a PhunkNoLongerForSale log removes the listing of the hashId; a
\* 'PhunkNoLongerForSale' event is emitted exactly when a listing was removed
\* and tx.from equals the ethscription's prevOwner, and otherwise no event of
\* any type is emitted for the log.
C14_NoLongerForSaleReported ==
    (Returned /\ IsMarketLogAboutRecord(lastTx, "PhunkNoLongerForSale", pre)) =>
      LET log == MarketLogOf(lastTx)
          h == log.args.hashId
          phunk == pre.ethscriptions[h]
      IN
      /\ listings[h] = Nothing
      /\ ethscriptions = pre.ethscriptions
      /\ IF pre.listings[h] # Nothing /\ SameAddress(lastTx.from, phunk.prevOwner)
         THEN /\ Len(lastResult.events) = 1
              /\ lastResult.events[1].type = "PhunkNoLongerForSale"
              /\ lastResult.events[1].hashId = h
              /\ lastResult.events[1].from = lastTx.from
         ELSE lastResult.events = <<>>

\* A cancellation sent by someone who is not the previous owner: the listing
\* goes, nothing is reported.
C14_Witness ==
    /\ Returned /\ IsMarketLogAboutRecord(lastTx, "PhunkNoLongerForSale", pre)
    /\ pre.listings["h1"] # Nothing
    /\ pre.ethscriptions["h1"].prevOwner = "0xa"
    /\ lastTx.from = "0xb"
    /\ listings["h1"] = Nothing
    /\ lastResult.events = <<>>


\* C15: a PhunkBidEntered log about an existing ethscription replaces the bid
\* of the hashId with the new bidder and emits a 'PhunkBidEntered' event; a
\* PhunkBidWithdrawn log deletes the bid and emits a 'PhunkBidWithdrawn' event.
C15_BidsEnteredAndWithdrawn ==
    /\ (Returned /\ IsMarketLogAboutRecord(lastTx, "PhunkBidEntered", pre)) =>
         LET log == MarketLogOf(lastTx)
             h == log.args.hashId
         IN /\ bids[h] # Nothing
            /\ SameAddress(bids[h].fromAddress, log.args.previous)
            /\ Len(lastResult.events) = 1
            /\ lastResult.events[1].type = "PhunkBidEntered"
    /\ (Returned /\ IsMarketLogAboutRecord(lastTx, "PhunkBidWithdrawn", pre)) =>
         LET h == MarketLogOf(lastTx).args.hashId
         IN /\ bids[h] = Nothing
            /\ Len(lastResult.events) = 1
            /\ lastResult.events[1].type = "PhunkBidWithdrawn"

C16_OneListing ==
    /\ \A h \in AllHashIds : listings[h] # Nothing => listings[h].hashId = h
    /\ (Returned /\ IsMarketLogAboutRecord(lastTx, "PhunkOffered", pre)
          /\ lastResult.events # <<>>) =>
         listings[MarketLogOf(lastTx).args.hashId] =
           [ hashId    |-> MarketLogOf(lastTx).args.hashId,
             seller    |-> lastTx.from,
             toAddress |-> toLowerCase(MarketLogOf(lastTx).args.address) ]

\* C17: every listing belongs to an ethscription that the marketplace escrow
\* owns and whose prevOwner is the listing's seller.
C17_ListingInvariant ==
    \A h \in AllHashIds :
        listings[h] # Nothing =>
          /\ ethscriptions[h] # Nothing
          /\ ethscriptions[h].owner = marketAddressL1
          /\ ethscriptions[h].prevOwner = listings[h].seller

\* The logs of a receipt applied one at a time, in receipt order, each by the
\* handler of its vocabulary.
LogInReceiptOrder(db, transaction, log, env) ==
    IF log.topic = "esip1" THEN processEsip1(db, <<log>>, transaction, env.now)
    ELSE IF log.topic = "esip2" THEN processEsip2(db, <<log>>, transaction, env.now)
    ELSE IF toLowerCase(log.address) = marketAddressL1
         THEN processEtherPhunkMarketplaceEvents(db, <<log>>, transaction)
    ELSE Collected(db, <<>>)

RECURSIVE LogsInReceiptOrder(_, _, _, _, _)
LogsInReceiptOrder(db, events, transaction, i, env) ==
    IF i > Len(transaction.logs) THEN Collected(db, events)
    ELSE LET r == LogInReceiptOrder(db, transaction, transaction.logs[i], env)
         IN LogsInReceiptOrder(r.db, events \o r.events, transaction, i + 1, env)

\* A successful contract call (no calldata transfer) with several transfer and
\* marketplace logs, in increasing logIndex.
HasSeveralLogs(transaction) ==
    /\ transaction.status = "success"
    /\ ~StartsWithData(transaction)
    /\ HexLen(transaction) % SEGMENT_SIZE # 0
    /\ Len(transaction.logs) > 1
    /\ \A k \in DOMAIN transaction.logs :
         /\ transaction.logs[k].topic \in {"esip1", "esip2"}
               \/ toLowerCase(transaction.logs[k].address) = marketAddressL1
         /\ \A l \in DOMAIN transaction.logs :
               k < l => transaction.logs[k].logIndex < transaction.logs[l].logIndex

\* C18: the logs of one transaction are applied in receipt order (increasing
\* logIndex) whatever their kinds: the state and the events are those of
\* handling the logs one after the other in that order.
C18_LogsAppliedInReceiptOrder ==
    (Returned /\ HasSeveralLogs(lastTx)) =>
      LET r == LogsInReceiptOrder(pre, <<>>, lastTx, 1, lastEnv)
      IN /\ ethscriptions = r.db.ethscriptions
         /\ listings = r.db.listings
         /\ lastResult.events = r.events


\* A successful transaction with an ownership transfer (by calldata or by an
\* ESIP-1 / ESIP-2 log) followed by one marketplace log about the same hashId.
IsTransferThenMarketLog(transaction) ==
    /\ transaction.status = "success"
    /\ ~StartsWithData(transaction)
    /\ Len(transaction.logs) > 0
    /\ LET last == transaction.logs[Len(transaction.logs)] IN
       /\ toLowerCase(last.address) = marketAddressL1
       /\ last.topic \notin {"esip1", "esip2"}
       /\ \/ /\ IsDirectTransfer([transaction EXCEPT !.logs = <<>>])
             /\ Len(transaction.logs) = 1
             /\ transaction.input.words[1] = last.args.hashId
          \/ /\ HexLen(transaction) % SEGMENT_SIZE # 0
             /\ Len(transaction.logs) = 2
             /\ transaction.logs[1].topic \in {"esip1", "esip2"}
             /\ transaction.logs[1].args.hashId = last.args.hashId
             /\ transaction.logs[1].logIndex < last.logIndex

\* The transaction without its last log.
WithoutLastLog(transaction) ==
    [transaction EXCEPT !.logs = SubSeq(@, 1, Len(@) - 1)]

\* C19: when a transfer is followed, later in the same transaction, by a
\* marketplace log about the same hashId, the marketplace handler sees the
\* owner and prevOwner the transfer left: the outcome is that of the handler
\* run on the store after the transfer, and an offer is accepted exactly when
\* the sender is the prevOwner the transfer left (or none is recorded).
C19_MarketLogSeesTransfer ==
    (Returned /\ IsTransferThenMarketLog(lastTx) /\ ~lastResult.threw) =>
      LET log == lastTx.logs[Len(lastTx.logs)]
          h == log.args.hashId
          transfer == processEthscriptionsEvents(pre, WithoutLastLog(lastTx), lastEnv)
          market == processEtherPhunkMarketplaceEvent(transfer.db, lastTx, log)
      IN
      /\ Db = market.db
      /\ lastResult.events = Push(transfer.events, market.event)
      /\ (log.topic = "PhunkOffered" /\ transfer.db.ethscriptions[h] # Nothing) =>
           LET prevOwner == transfer.db.ethscriptions[h].prevOwner IN
           IF prevOwner = NULL \/ SameAddress(prevOwner, lastTx.from)
           THEN listings[h] # Nothing /\ listings[h].seller = lastTx.from
           ELSE listings[h] = Nothing

\* 0xa, who got h1 from 0xb, deposits it and offers it in one transaction: the
\* offer is judged against prevOwner 0xa, not 0xb, and is listed.
C19_Witness ==
    /\ Returned /\ IsTransferThenMarketLog(lastTx)
    /\ lastTx.from = "0xa"
    /\ pre.ethscriptions["h1"] # Nothing
    /\ pre.ethscriptions["h1"].owner = "0xa"
    /\ pre.ethscriptions["h1"].prevOwner = "0xb"
    /\ ethscriptions["h1"].owner = marketAddressL1
    /\ ethscriptions["h1"].prevOwner = "0xa"
    /\ listings["h1"] # Nothing
    /\ Len(lastResult.events) = 2


\* The log of the transaction that an event reports: a transfer event reports
\* the ESIP-1 / ESIP-2 log with its recipient, a marketplace event the log of
\* its name.
ReportsLog(event, log) ==
    /\ log.args.hashId = event.hashId
    /\ IF event.type = "transfer"
       THEN /\ log.topic \in {"esip1", "esip2"}
            /\ log.args.address # NULL
            /\ toLowerCase(log.args.address) = event.to
       ELSE log.topic = event.type

LogIndexOf(transaction, event) ==
    LET k == CHOOSE j \in DOMAIN transaction.logs : ReportsLog(event, transaction.logs[j])
    IN transaction.logs[k].logIndex

\* C21: the events about one hashId are handed to addEvents in strictly
\* increasing (blockNumber, txIndex, logIndex): within the events of one
\* transaction with several logs, an event about a hashId that precedes
\* another event about the same hashId reports a log with a smaller logIndex.
C21_EventsInLogIndexOrder ==
    (Returned /\ HasSeveralLogs(lastTx) /\ ~lastResult.threw) =>
      \A k, l \in DOMAIN lastResult.events :
        ( /\ k < l
          /\ lastResult.events[k].hashId = lastResult.events[l].hashId
          /\ \E j \in DOMAIN lastTx.logs : ReportsLog(lastResult.events[k], lastTx.logs[j])
          /\ \E j \in DOMAIN lastTx.logs : ReportsLog(lastResult.events[l], lastTx.logs[j]) )
        => LogIndexOf(lastTx, lastResult.events[k]) < LogIndexOf(lastTx, lastResult.events[l])

-----------------------------------------------------------------------------
(* Block properties *)

StrictlyIncreasing(seq) == \A k, l \in DOMAIN seq : k < l => seq[k] < seq[l]

C11_IdempotentReplay ==
    replay.phase = "replayed" => Snapshot = replay.snapshot

\* The events of block n that processTransaction produced while the block was
\* processed: those returned to processBlock and those of the retryBlock calls.
ProducedEvents(run) == Range(run.events) \cup run.dropped

IsWritten(event) == \E e \in eventsTable : e.txId = event.txId

\* C22: lastBlock is n only when every event produced by block n is in the
\* events table.
C22_CheckpointAfterEvents ==
    (lastRun # Nothing /\ block = Nothing /\ lastBlock = lastRun.number) =>
      \A e \in ProducedEvents(lastRun) : IsWritten(e)

\* The events returned to processBlock are written before lastBlock is.
C22_ReturnedEventsWritten ==
    (lastRun # Nothing /\ block = Nothing /\ lastBlock = lastRun.number) =>
      \A e \in Range(lastRun.events) : IsWritten(e)

\* C24: processing a block whose number is not above lastBlock changes
\* nothing: ownership, listings, events and the processed-block window are
\* what they were.
C24_ProcessedBlockIsNoOp ==
    replay.phase = "replayed" =>
      /\ Snapshot = replay.snapshot
      /\ Len(processedBlocks) = Len(replay.blocks)
      /\ \A k \in DOMAIN processedBlocks :
           processedBlocks[k].number = replay.blocks[k].number

\* C25: a block is retried at most 5 times.
C25_RetryBounded ==
    /\ \A f \in DOMAIN frames : frames[f].retries <= 5
    /\ lastRun # Nothing => lastRun.retries <= 5

-----------------------------------------------------------------------------
(* Window and reorganisation properties *)

\* C23: no event of the events table has a blockNumber above lastBlock.
C23_NoEventAboveCheckpoint ==
    \A e \in eventsTable : e.blockNumber <= lastBlock

\* C23, first half: the stored lastBlock never decreases.
C23_LastBlockNeverDecreases == [][lastBlock' >= lastBlock]_vars

\* C26: a block whose parentHash differs from the hash of the last entry of a
\* non-empty window raises a reorg error and is not appended to the window: no
\* entry of the window follows an entry that is not its parent.
C26_ReorgBlockNotAppended ==
    \A k \in DOMAIN processedBlocks :
        ~checkForReorg(SubSeq(processedBlocks, 1, k - 1), processedBlocks[k]).threw

\* C27: after a successful processBlock the window entry CONFIRMATIONS
\* positions behind the newest is confirmed.
C27_ConfirmedBehindNewest ==
    (block = Nothing /\ Len(processedBlocks) > CONFIRMATIONS) =>
      processedBlocks[Len(processedBlocks) - CONFIRMATIONS].confirmed

\* The height at which the fork that replaced the chain begins.
ForkHeight ==
    LET k == CHOOSE j \in DOMAIN replay.blocks :
               /\ replay.blocks[j].hash[2] = "y"
               /\ \A i \in 1..(j - 1) : replay.blocks[i].hash[2] # "y"
    IN replay.blocks[k].number

\* C28: once the chain has presented a block n' with the parent of n and
\* another hash, the events of the replaced blocks n.. are gone.
C28_ReorgRollsBack ==
    (block = Nothing /\ Reorganised) =>
      \A e \in eventsTable :
        e.blockNumber >= ForkHeight => e.blockHash = BlockHash(e.blockNumber, "y")

\* C29: the window holds at most BLOCK_HISTORY entries: the blocks processed
\* last, in the order they were processed, the newest last.
C29_WindowBounded ==
    LET n == Len(replay.blocks)
        w == Len(processedBlocks)
    IN /\ w <= BLOCK_HISTORY
       /\ w = (IF n < BLOCK_HISTORY THEN n ELSE BLOCK_HISTORY)
       /\ \A k \in 1..w :
            /\ processedBlocks[k].number = replay.blocks[n - w + k].number
            /\ processedBlocks[k].hash = replay.blocks[n - w + k].hash

\* More than BLOCK_HISTORY blocks were processed and the oldest was dropped.
C29_Witness ==
    /\ Len(replay.blocks) = BLOCK_HISTORY + 1
    /\ Len(processedBlocks) = BLOCK_HISTORY
    /\ processedBlocks[1].number = 2
    /\ processedBlocks[BLOCK_HISTORY].number = BLOCK_HISTORY + 1

-----------------------------------------------------------------------------
(* Startup properties *)

Interval(a, b) == [ k \in 1..(b - a + 1) |-> a + k - 1 ]

\* C30: when the queue is resumed and the block watcher started, the backfill
\* has enqueued every block number from startBlock through the head it
\* observed, inclusive, in increasing order.
C30_BackfillThroughHead ==
    indexer.phase = "polling" =>
      indexer.backfilled = Interval(indexer.startBlock, indexer.latest)

\* The backfill enqueues in increasing order while the queue is paused, and
\* the watcher enqueues nothing before the backfill has finished.
C30_BackfillWhilePaused ==
    /\ indexer.phase \in {"paused", "backfill"} =>
         /\ indexer.paused
         /\ indexer.queue = Interval(indexer.startBlock, indexer.cursor - 1)
    /\ indexer.phase = "polling" =>
         indexer.backfilled = Interval(indexer.startBlock, indexer.latest - 1)

\* No block number between startBlock and the newest enqueued is skipped.
C30_NoBlockSkipped ==
    \A n \in indexer.startBlock..MaxHead :
      (\E k \in DOMAIN indexer.queue : indexer.queue[k] > n) =>
        \E k \in DOMAIN indexer.queue : indexer.queue[k] = n

-----------------------------------------------------------------------------
(* Records, side logs and skipped transactions *)

\* C37: every Ethscription record has a non-null owner, also after a direct
\* or batch transfer by a transaction that has no 'to'.
C37_OwnerNeverNull ==
    \A h \in DOMAIN ethscriptions :
      ethscriptions[h] # Nothing => ethscriptions[h].owner # NULL

\* C37 for transfers by transactions that name a recipient: holds.
C37_OwnerKeptByNamedRecipient ==
    (Returned /\ lastTx.to # NULL) =>
      \A h \in DOMAIN ethscriptions :
        (pre.ethscriptions[h] # Nothing /\ pre.ethscriptions[h].owner # NULL)
            => ethscriptions[h].owner # NULL

\* The decodable logs of the last transaction that carry the given topic and
\* were emitted by the given contract.
SideLogsOf(address, topic) ==
    { k \in DOMAIN lastTx.logs :
        /\ lastTx.logs[k].decodes
        /\ toLowerCase(lastTx.logs[k].address) = address
        /\ lastTx.logs[k].topic = topic }

\* The last transaction was successful, its calldata is no data URI, and its
\* processing raised no error.
HandledLogs ==
    /\ Returned
    /\ lastTx.status = "success"
    /\ ~StartsWithData(lastTx)
    /\ ~lastResult.threw

\* C31: every user named by a PointsAdded log of a handled transaction has
\* the stored points overwritten with the on-chain value, whatever other logs
\* (marketplace logs that yield no event, bridge logs) the receipt carries.
C31_PointsOverwritten ==
    HandledLogs =>
      \A k \in SideLogsOf(pointsAddressL1, "PointsAdded") :
        userPoints[StoreAddress(lastTx.logs[k].args.address)] = lastEnv.chainPoints.points

\* C31 for receipts without marketplace and bridge logs: holds.
C31_PointsOverwrittenAlone ==
    (HandledLogs /\ \A k \in DOMAIN lastTx.logs :
                      toLowerCase(lastTx.logs[k].address)
                          \notin {marketAddressL1, bridgeAddressL1}) =>
      \A k \in SideLogsOf(pointsAddressL1, "PointsAdded") :
        userPoints[StoreAddress(lastTx.logs[k].args.address)] = lastEnv.chainPoints.points

\* The bridge log of the last transaction that names hashId h last.
LastBridgeLogOf(h) ==
    LET ks == { k \in DOMAIN lastTx.logs :
                  /\ lastTx.logs[k].decodes
                  /\ toLowerCase(lastTx.logs[k].address) = bridgeAddressL1
                  /\ lastTx.logs[k].args.hashId = h }
    IN IF ks = {} THEN Nothing
       ELSE lastTx.logs[CHOOSE k \in ks : \A j \in ks : j <= k]

\* C33: the locked flag of a record follows the bridge logs: true after
\* HashLocked, false after a later HashUnlocked (stated for receipts that
\* carry bridge logs only).
C33_LockedFollowsBridgeLogs ==
    (HandledLogs /\ \A k \in DOMAIN lastTx.logs :
                      toLowerCase(lastTx.logs[k].address) = bridgeAddressL1) =>
      \A h \in HashIds :
        LET log == LastBridgeLogOf(h) IN
        (log # Nothing /\ ethscriptions[h] # Nothing) =>
          /\ log.topic = "HashLocked" => ethscriptions[h].locked
          /\ log.topic = "HashUnlocked" => ~ethscriptions[h].locked

\* C33 for HashLocked alone, on receipts whose bridge logs are reached (no
\* marketplace log): holds.
C33_LockedAfterHashLocked ==
    (HandledLogs /\ \A k \in DOMAIN lastTx.logs :
                      toLowerCase(lastTx.logs[k].address) # marketAddressL1) =>
      \A h \in HashIds :
        LET log == LastBridgeLogOf(h) IN
        (log # Nothing /\ ethscriptions[h] # Nothing /\ log.topic = "HashLocked") =>
          /\ ethscriptions[h].locked
          /\ <<h, log.args.previous>> \in bridgeQueue

\* The last transaction was successful, its calldata is no data URI, and its
\* receipt carries a log that decodeEventLog rejects.
HasUndecodableLog ==
    /\ Returned
    /\ lastTx.status = "success"
    /\ ~StartsWithData(lastTx)
    /\ \E k \in DOMAIN lastTx.logs : ~lastTx.logs[k].decodes

\* C34: a log that cannot be decoded, or that decodes to an unknown event
\* name, in any vocabulary (ESIP-1, ESIP-2, marketplace, points, bridge) is
\* skipped: the transaction's processing raises no error (so the block is
\* neither aborted nor restarted), and the other logs are handled.
C34_UndecodableLogSkipped ==
    HasUndecodableLog =>
      /\ ~lastResult.threw
      /\ \A k \in SideLogsOf(pointsAddressL1, "PointsAdded") :
           userPoints[StoreAddress(lastTx.logs[k].args.address)] = lastEnv.chainPoints.points

\* C34 for the marketplace vocabulary: an undecodable marketplace log raises
\* no error (holds).
C34_UndecodableMarketLogCaught ==
    (HasUndecodableLog /\ \A k \in DOMAIN lastTx.logs :
         ~lastTx.logs[k].decodes => toLowerCase(lastTx.logs[k].address) = marketAddressL1
                                      /\ lastTx.logs[k].topic \notin {"esip1", "esip2"}) =>
      ~lastResult.threw

\* C35: AuctionSettled(hashId, winner) for a record held by the auction house
\* transfers its ownership to the winner.
C35_AuctionSettledTransfers ==
    (HandledLogs /\ \A k \in DOMAIN lastTx.logs :
                      toLowerCase(lastTx.logs[k].address) = auctionAddress) =>
      \A k \in SideLogsOf(auctionAddress, "AuctionSettled") :
        LET h == lastTx.logs[k].args.hashId
            row == pre.ethscriptions[h]
        IN (row # Nothing /\ SameAddress(row.owner, auctionAddress)) =>
             SameAddress(ethscriptions[h].owner, lastTx.logs[k].args.address)

\* A record never changes owner, and no event is produced, by a receipt that
\* carries auction logs only (holds).
C35_AuctionLogsNotHandled ==
    (HandledLogs /\ lastTx.logs # <<>>
        /\ \A k \in DOMAIN lastTx.logs :
              toLowerCase(lastTx.logs[k].address) = auctionAddress) =>
      /\ ethscriptions = pre.ethscriptions
      /\ lastResult.events = <<>>

-----------------------------------------------------------------------------
(* Blocks with bridge logs, skipped transactions, retries *)

\* lockEthscription answers false for a HashLocked log of the transaction.
FailsToLock(transaction) ==
    \E k \in DOMAIN transaction.logs :
      /\ transaction.logs[k].decodes
      /\ toLowerCase(transaction.logs[k].address) = bridgeAddressL1
      /\ transaction.logs[k].topic = "HashLocked"
      /\ ethscriptions[transaction.logs[k].args.hashId] = Nothing

\* C32: when the lock of a HashLocked log fails (no such record), the
\* processing of the whole block stops with a fatal error: the failure does
\* not start the block's transactions anew.
C32_LockFailureIsFatal ==
    \A f \in 1..(Len(frames) - 1) :
      ~FailsToLock(frames[f].txns[frames[f].i - 1])

\* A block with a failed lock is never reported processed and the checkpoint
\* does not advance over it (holds).
C32_FailedLockNotProcessed ==
    /\ \A k \in DOMAIN replay.blocks :
         \A j \in DOMAIN replay.blocks[k].transactions :
           ~FailsToLock(replay.blocks[k].transactions[j])
    /\ (block # Nothing /\ \E j \in DOMAIN block.transactions :
                              FailsToLock(block.transactions[j]))
          => lastBlock < block.number

\* C36: every accepted ownership change is recorded: once the block is
\* processed, the 'transfer' event of every ownership change made while it
\* was processed is in the events table, also when a transaction threw and
\* the block went through retryBlock.
C36_OwnershipChangeRecorded ==
    (lastRun # Nothing /\ block = Nothing /\ lastBlock = lastRun.number) =>
      \A e \in ProducedEvents(lastRun) :
        e.type = "transfer" =>
          \E w \in eventsTable :
            /\ w.type = "transfer"
            /\ w.hashId = e.hashId
            /\ w.from = e.from
            /\ w.to = e.to
            /\ w.txHash = e.txHash

\* C40: within one processBlock call each transaction changes the derived
\* state at most once: when a transaction throws, the recovery does not apply
\* the transactions before it or after it a second time.
C40_AppliedAtMostOnce ==
    /\ \A f \in DOMAIN frames : \A k \in Indexes : frames[f].applied[k] <= 1
    /\ lastRun # Nothing => \A k \in Indexes : lastRun.applied[k] <= 1

\* C40 for a processTransactions call in which no exception was caught: each
\* transaction is applied at most once (holds).
C40_AppliedOnceWithoutRetry ==
    /\ \A f \in DOMAIN frames :
         (f = Len(frames) /\ frames[f].retries = 0) =>
           \A k \in Indexes : frames[f].applied[k] <= 1
    /\ (lastRun # Nothing /\ lastRun.retries = 0) =>
         \A k \in Indexes : lastRun.applied[k] <= 1

\* getBlock failed, or answered a block of another number.
Refused(request) ==
    /\ request # Nothing
    /\ \/ request.answer = Nothing
       \/ request.answer.number # request.n

\* C38: if getBlock(n) fails or answers a block whose number differs from n,
\* processBlock raises an error before anything is mutated: no transaction of
\* the answer is processed, and the datastore, the events, the checkpoint and
\* the window are what they were.
C38_RefusedBeforeMutation ==
    /\ [](Refused(replay.request) => block = Nothing)
    /\ [][Refused(replay'.request) /\ replay'.request # replay.request =>
            UNCHANGED <<ethscriptions, listings, bids, userPoints, bridgeQueue,
                        eventsTable, lastBlock, processedBlocks, block, frames>>]_vars

\* getBlock(1) answered a block of another height, with transactions, and
\* processBlock has ended.
C38_Witness ==
    /\ Refused(replay.request)
    /\ replay.request.answer # Nothing
    /\ replay.request.answer.transactions # <<>>
    /\ block = Nothing
    /\ lastBlock = 0

\* The calldata of the transaction is '0x'.
InputIsEmpty(transaction) == transaction.input = EmptyInput

\* The transaction of the block that an event came from.
SourceOf(run, event) ==
    { k \in DOMAIN run.fetched : run.fetched[k].hash = event.txHash }

\* The loop of processTransactions takes the next transaction, whose receipt
\* status is not success.
SkipsReverted ==
    /\ frames # <<>>
    /\ frames' # frames
    /\ TopFrame.i <= Len(TopFrame.txns)
    /\ TopFrame.txns[TopFrame.i].status # "success"

\* C39: a transaction whose receipt status is not success, or whose input is
\* exactly '0x', is skipped without error: it produces no events and changes
\* no state, even when its receipt carries recognised logs.
C39_SkippedWithoutEffect ==
    /\ [](\A f \in DOMAIN frames : \A k \in DOMAIN frames[f].txns :
            ~InputIsEmpty(frames[f].txns[k]))
    /\ [](lastRun # Nothing =>
            \A k \in DOMAIN lastRun.events :
              \A j \in SourceOf(lastRun, lastRun.events[k]) :
                /\ ~InputIsEmpty(lastRun.fetched[j])
                /\ lastRun.fetched[j].status = "success")
    /\ [][SkipsReverted =>
            /\ UNCHANGED <<ethscriptions, listings, bids, userPoints, bridgeQueue,
                           eventsTable>>
            /\ Len(frames') = Len(frames)
            /\ frames'[Len(frames)].events = TopFrame.events]_vars

\* A block of a call without calldata and a reverted transfer, both with an
\* ESIP-1 transfer log of h1, has been processed: no event, h1 not moved.
C39_Witness ==
    /\ lastRun # Nothing
    /\ block = Nothing
    /\ lastBlock = 1
    /\ Len(lastRun.fetched) = 2
    /\ \E j, k \in DOMAIN lastRun.fetched :
         /\ InputIsEmpty(lastRun.fetched[j]) /\ lastRun.fetched[j].logs # <<>>
         /\ lastRun.fetched[k].status # "success" /\ lastRun.fetched[k].logs # <<>>
    /\ Len(lastRun.started) = 1
    /\ lastRun.events = <<>>
    /\ eventsTable = {}
    /\ ethscriptions["h1"] # Nothing
    /\ ethscriptions["h1"].owner = "0xa"
    /\ ethscriptions["h1"].prevOwner = NULL

====
